---- MODULE Spec2Model ----
(***************************************************************************)
(* Model of the aescrypt command-line tool's batch pipeline:               *)
(*   main()            argument checks that guard EncryptFiles/DecryptFiles *)
(*   EncryptFiles() /  the per-file loop: input check, input open, output  *)
(*   DecryptFiles()    check, output open, stream call, close, cleanup     *)
(*   EncryptStream() / the worker thread, the controller's wait on the     *)
(*   DecryptStream()   ProcessControl condition variable, Cancel(), join   *)
(*   SignalHandler()   sets ProcessControl.terminate under the mutex       *)
(* File names are sequences of one-character strings.                      *)
(***************************************************************************)
EXTENDS Integers, Sequences, FiniteSets, TLC

(* ------------------------------ bounds --------------------------------- *)

MaxFiles == 2

MaxSignals == 2

(* ---------------------------- file names -------------------------------- *)

Stdio == <<"-">>

Empty == <<>>

AesSuffix == <<".", "a", "e", "s">>

NameX == <<"x">>

NameXaes == <<"x", ".", "a", "e", "s">>

NameYAES == <<"y", ".", "A", "E", "S">>

NameOut == <<"o">>

InputNames == {Stdio, NameX, NameXaes, NameYAES}

OutputArgs == {Empty, Stdio, NameOut}

\* index of the last occurrence of character c in s, 0 when there is none
RECURSIVE LastIndexOf(_, _, _)
LastIndexOf(s, c, i) ==
    IF i = 0 THEN 0
    ELSE IF s[i] = c THEN i
    ELSE LastIndexOf(s, c, i - 1)

\* std::filesystem::path::filename(): the part after the last separator
PathFilename(p) ==
    LET k == LastIndexOf(p, "/", Len(p))
    IN  SubSeq(p, k + 1, Len(p))

\* std::filesystem::path::extension(): from the last period of the file name,
\* empty for ".", ".." and for a file name whose only period is its first
\* character
PathExtension(p) ==
    LET f == PathFilename(p)
        k == LastIndexOf(f, ".", Len(f))
    IN  IF f = <<".">> \/ f = <<".", ".">> THEN Empty
        ELSE IF k <= 1 THEN Empty
        ELSE SubSeq(f, k, Len(f))

HasAESExtension(filename) ==
    LET extension == PathExtension(filename)
    IN  /\ Len(extension) = 4
        /\ extension[1] = "."
        /\ extension[2] \in {"a", "A"}
        /\ extension[3] \in {"e", "E"}
        /\ extension[4] \in {"s", "S"}

\* out_file = in_file + ".aes"
EncryptOutName(in_file) == in_file \o AesSuffix

\* variant of the decrypt name: only the letters "aes" are cut off
DecryptOutName_KeepDot(in_file) == SubSeq(in_file, 1, Len(in_file) - 3)

\* out_file = in_file; out_file.resize(out_file.size() - 4)
DecryptOutName(in_file) == SubSeq(in_file, 1, Len(in_file) - 4)

(* ---------------------------- file system ------------------------------- *)

FileTypes == {"none", "file", "dir", "dev"}

Paths ==
    (InputNames \ {Stdio})
        \cup {EncryptOutName(n) : n \in InputNames \ {Stdio}}
        \cup {DecryptOutName(n) : n \in {m \in InputNames : HasAESExtension(m)}}
        \cup {NameOut}

\* the names a run with these arguments looks at: its inputs and outputs
UsedPaths(m, names, outarg) ==
    { names[i] : i \in DOMAIN names }
        \cup { IF outarg # Empty THEN outarg
               ELSE IF m = "Encrypt" THEN EncryptOutName(names[i])
               ELSE DecryptOutName(names[i]) : i \in DOMAIN names }

\* the types a path may have before the run starts; the names the run never
\* looks at do not exist
InitialTypes(p, m, names, outarg) ==
    IF p \notin UsedPaths(m, names, outarg) THEN {"none"}
    ELSE IF p \in { names[i] : i \in DOMAIN names } THEN {"none", "file", "dir"}
    ELSE FileTypes

\* the file systems over the paths S a run may start in
RECURSIVE FileSystems(_, _, _, _)
FileSystems(S, m, names, outarg) ==
    IF S = {} THEN { [p \in {} |-> "none"] }
    ELSE LET q == CHOOSE p \in S : TRUE
         IN  { (q :> t) @@ f :
                   t \in InitialTypes(q, m, names, outarg),
                   f \in FileSystems(S \ {q}, m, names, outarg) }

(* ---------------------------- key file text ----------------------------- *)

\* Octets are the integers 0..255; a key or a key file content is a sequence
\* of octets.

MaxKeyLen == 4

BOMOctets == {254, 255}

BodyOctets == {0, 10, 13, 65, 169, 195, 216, 220}

Continuation(b) == b >= 128 /\ b <= 191

\* the number of octets of the UTF-8 sequence that starts at s[i], 0 when no
\* well-formed sequence starts there
UTF8SequenceLength(s, i) ==
    LET b == s[i]
        n == Len(s) - i + 1
        c2 == IF n >= 2 THEN s[i + 1] ELSE 0
        c3 == IF n >= 3 THEN s[i + 2] ELSE 0
        c4 == IF n >= 4 THEN s[i + 3] ELSE 0
    IN  IF b < 128 THEN 1
        ELSE IF b >= 194 /\ b <= 223
        THEN (IF Continuation(c2) THEN 2 ELSE 0)
        ELSE IF b >= 224 /\ b <= 239
        THEN (IF /\ Continuation(c2)
                 /\ Continuation(c3)
                 /\ (b = 224 => c2 >= 160)
                 /\ (b = 237 => c2 <= 159)
              THEN 3 ELSE 0)
        ELSE IF b >= 240 /\ b <= 244
        THEN (IF /\ Continuation(c2)
                 /\ Continuation(c3)
                 /\ Continuation(c4)
                 /\ (b = 240 => c2 >= 144)
                 /\ (b = 244 => c2 <= 143)
              THEN 4 ELSE 0)
        ELSE 0

RECURSIVE UTF8ValidFrom(_, _)
UTF8ValidFrom(s, i) ==
    IF i > Len(s) THEN TRUE
    ELSE LET n == UTF8SequenceLength(s, i)
         IN  n # 0 /\ UTF8ValidFrom(s, i + n)

\* Terra::CharUtil::IsUTF8Valid
IsUTF8Valid(s) == UTF8ValidFrom(s, 1)

\* the UTF-8 octets of a code point
UTF8Encode(cp) ==
    IF cp < 128 THEN << cp >>
    ELSE IF cp < 2048
    THEN << 192 + (cp \div 64), 128 + (cp % 64) >>
    ELSE IF cp < 65536
    THEN << 224 + (cp \div 4096), 128 + ((cp \div 64) % 64), 128 + (cp % 64) >>
    ELSE << 240 + (cp \div 262144), 128 + ((cp \div 4096) % 64),
            128 + ((cp \div 64) % 64), 128 + (cp % 64) >>

\* the k-th UTF-16 code unit of an octet string in the given octet order
CodeUnit(s, k, little_endian) ==
    IF little_endian THEN s[2 * k - 1] + 256 * s[2 * k]
    ELSE 256 * s[2 * k - 1] + s[2 * k]

HighSurrogate(u) == u >= 55296 /\ u <= 56319

LowSurrogate(u) == u >= 56320 /\ u <= 57343

\* conversion of the code units k.. of s, appended to out; it stops with
\* result false at a surrogate that has no partner
RECURSIVE ConvertUnits(_, _, _, _)
ConvertUnits(s, k, little_endian, out) ==
    IF 2 * k > Len(s) THEN [result |-> TRUE, out |-> out]
    ELSE LET u == CodeUnit(s, k, little_endian)
         IN  IF HighSurrogate(u)
             THEN IF 2 * (k + 1) <= Len(s)
                     /\ LowSurrogate(CodeUnit(s, k + 1, little_endian))
                  THEN ConvertUnits(s, k + 2, little_endian,
                           out \o UTF8Encode(
                               65536 + (u - 55296) * 1024
                                 + (CodeUnit(s, k + 1, little_endian) - 56320)))
                  ELSE [result |-> FALSE, out |-> out]
             ELSE IF LowSurrogate(u)
             THEN [result |-> FALSE, out |-> out]
             ELSE ConvertUnits(s, k + 1, little_endian, out \o UTF8Encode(u))

\* Terra::CharUtil::ConvertUTF16ToUTF8: the result flag and the octets written
ConvertUTF16ToUTF8(s, little_endian) == ConvertUnits(s, 1, little_endian, <<>>)

\* variant of the conversion: the result flag of the converter is ignored
PasswordConvertUTF8_IgnoreResult(password, little_endian) ==
    IF Len(password) % 2 # 0 THEN <<>>
    ELSE ConvertUTF16ToUTF8(password, little_endian).out

\* PasswordConvertUTF8(): UTF-16 octets to UTF-8, empty on any error
PasswordConvertUTF8(password, little_endian) ==
    IF Len(password) % 2 # 0 THEN <<>>
    ELSE LET converted == ConvertUTF16ToUTF8(password, little_endian)
         IN  IF ~converted.result \/ Len(converted.out) = 0 THEN <<>>
             ELSE converted.out

\* variant of the terminators: a carriage return does not end the key
KeyTerminator_NoCR(b) == b \in {0, 10}

\* the octets at which a UTF-8 key is cut: \0, \r, \n
KeyTerminator(b) == b \in {0, 13, 10}

\* the index of the first terminator of key at or after i, Len(key) + 1 when
\* there is none
RECURSIVE FirstTerminator(_, _)
FirstTerminator(key, i) ==
    IF i > Len(key) THEN i
    ELSE IF KeyTerminator(key[i]) THEN i
    ELSE FirstTerminator(key, i + 1)

\* variant of the branch taken: UTF-16 only for a whole byte order mark
KeyEncoding_BOM(key) ==
    IF Len(key) >= 2 /\ key[1] = 255 /\ key[2] = 254 THEN "UTF-16LE"
    ELSE IF Len(key) >= 2 /\ key[1] = 254 /\ key[2] = 255 THEN "UTF-16BE"
    ELSE "UTF-8"

\* ReadKeyFile(): the branch taken for the content read: UTF-8 unless the
\* first octet is 0xFE or 0xFF, then little endian when it is 0xFF
KeyEncoding(key) ==
    IF key[1] # 254 /\ key[1] # 255 THEN "UTF-8"
    ELSE IF key[1] = 255 THEN "UTF-16LE"
    ELSE "UTF-16BE"

\* ReadKeyFile(): the UTF-8 branch, the key cut at the first terminator and
\* checked to be valid UTF-8
KeyFromUTF8(key) ==
    LET cut == SubSeq(key, 1, FirstTerminator(key, 1) - 1)
    IN  IF IsUTF8Valid(cut) THEN cut ELSE <<>>

\* ReadKeyFile(): the UTF-16 branch, an even length of at least 4 octets, the
\* BOM erased and the rest converted
KeyFromUTF16(key, little_endian) ==
    IF Len(key) % 2 # 0 THEN <<>>
    ELSE IF Len(key) < 4 THEN <<>>
    ELSE PasswordConvertUTF8(SubSeq(key, 3, Len(key)), little_endian)

\* ReadKeyFile(): the key for the content read from the key file
ReadKeyFile(key) ==
    IF key = <<>> THEN <<>>
    ELSE IF KeyEncoding(key) = "UTF-8" THEN KeyFromUTF8(key)
    ELSE KeyFromUTF16(key, KeyEncoding(key) = "UTF-16LE")

\* octet strings of length up to n over the octets B
RECURSIVE OctetStrings(_, _)
OctetStrings(B, n) ==
    IF n = 0 THEN { <<>> }
    ELSE LET shorter == OctetStrings(B, n - 1)
         IN  shorter \cup { Append(s, b) : s \in shorter, b \in B }

\* the key file contents of the model: up to two BOM octets, then a body
KeyFileContents ==
    { head \o body : head \in OctetStrings(BOMOctets, 2),
                     body \in OctetStrings(BodyOctets, MaxKeyLen) }

(* ------------------------------- state ---------------------------------- *)

VARIABLES
    mode,            \* AESCryptMode: "Encrypt" or "Decrypt"
    filenames,       \* the input file names of the command line
    outfile_given,   \* options_parser.OptionGiven("outfile")
    output_file,     \* the --outfile argument, Empty when not given
    fs,              \* file system: path -> type of the entry
    pc,              \* position of the controller (main) thread
    idx,             \* index of the loop's current in_file
    out_file,        \* EncryptFiles/DecryptFiles local out_file
    remove_on_fail,  \* loop local remove_on_fail
    ifs_open,        \* ifs.is_open()
    ofs_open,        \* ofs.is_open()
    result,          \* value returned by EncryptStream/DecryptStream
    exit_code,       \* value returned by main
    err,             \* the error line the run last wrote to std::cerr
    options,         \* options_parser: the options given on the command line
    password,        \* main's password, the secret handed to the batch call
    key_file,        \* main's key_file, the --keyfile argument
    key_data,        \* the octets stored in the key file
    iterations,      \* main's iterations: "default" or "user"
    win32,           \* the build is the Windows build (_WIN32)
    events,          \* history: what main() has done so far
    terminate,       \* ProcessControl.terminate
    mutex,           \* owner of ProcessControl.mutex
    wpc,             \* position of the worker thread
    complete,        \* encryption_complete / decryption_complete
    cancel,          \* cancel_encryption / cancel_decryption
    engine_result,   \* encrypt_result / decrypt_result
    engine_cancel,   \* Cancel() has been called on the engine object
    hpc,             \* position of the signal handler
    hhost,           \* the thread the signal handler interrupted
    sigCount,        \* signals delivered so far
    termAccess,      \* history: accesses of terminate, with the lock state
    termIdx,         \* history: idx when terminate was first set, 0 if never
    log,             \* history: per-file record of what was done
    gpc,             \* position within GenerateKeyFile() and the read after it
    kf,              \* the entry at the key file path: its type and octets
    gen,             \* GenerateKeyFile(): arguments, locals and history
    tpc,             \* position within ReadTerminalText()
    echo,            \* the terminal's ECHO flag
    tty,             \* ReadTerminalText(): locals and history
    mem,             \* the containers that hold or have held the secret
    verbosity,       \* the logging and quiet options and main()'s quiet
    meter            \* the stream function's progress meter set-up

vars ==
    << mode, filenames, outfile_given, output_file, fs, pc, idx, out_file,
       remove_on_fail, ifs_open, ofs_open, result, exit_code, err,
       terminate, mutex, wpc, complete, cancel, engine_result, engine_cancel, hpc,
       hhost, sigCount, termAccess, termIdx, log, options, password,
       key_file, key_data, iterations, win32, events, gpc, kf, gen, tpc,
       echo, tty, mem, verbosity, meter >>

genVars == << gpc, kf, gen >>

ttyVars == << tpc, echo, tty >>

mainVars ==
    << options, password, key_file, key_data, iterations, win32, events >>

pipeVars ==
    << fs, idx, out_file, remove_on_fail, ifs_open, ofs_open, result,
       terminate, mutex, wpc, complete, cancel, engine_result, engine_cancel,
       hpc, hhost, sigCount, termAccess, termIdx, log >>

configVars == << mode, filenames, outfile_given, output_file >>

progVars ==
    << configVars, pipeVars, mainVars, pc, exit_code, err, mem, verbosity,
       meter >>

loopVars == << idx, out_file, remove_on_fail, ifs_open, ofs_open, result >>

streamVars == << complete, cancel, engine_result, engine_cancel >>

handlerVars == << hpc, hhost, sigCount >>

historyVars == << termAccess, termIdx, log >>

NoLog ==
    [ in |-> 0, out |-> 0, thr |-> 0, chk |-> "unchecked", name |-> Empty,
      ichk |-> "unchecked", sized |-> FALSE,
      flag |-> FALSE, created |-> FALSE, eng |-> "none", sres |-> "none",
      cancels |-> 0, termRun |-> FALSE, rmTried |-> FALSE, rmOk |-> FALSE,
      obsSeen |-> FALSE, obsTerm |-> FALSE, obsComp |-> FALSE,
      said |-> FALSE ]

\* an error line: its fixed text and the path it names, Empty when it names
\* none
Error(text, path) == [text |-> text, path |-> path]

NoError == Error("none", Empty)

FileLists == UNION { [1..n -> InputNames] : n \in 0..MaxFiles }

\* the command-line password of the model ("pw") and the text typed at the
\* prompt ("q"), as octets
PasswordArg == << 112, 119 >>

PromptText == << 113 >>

NameKey == <<"k">>

\* a container of the secret: its name in the source, whether its type
\* erases its memory, and whether it is live, destroyed and zeroed, or
\* destroyed with its octets left in memory
Container(name, kind) == [name |-> name, kind |-> kind, state |-> "live"]

\* the destructor of a container: only a secure type erases
Destroyed(c) ==
    [c EXCEPT !.state = IF c.kind = "secure" THEN "zeroed" ELSE "residue"]

\* main's SecureU8String password
PasswordContainer == Container("password", "secure")

\* the std::u8string made by static_cast<std::u8string>(password) for the
\* engine call
EngineArgument == Container("engine_argument", "ordinary")

\* the options logging and quiet as given on the command line, and main()'s
\* local quiet
Verbosity(logging, option, quiet) ==
    [logging |-> logging, option |-> option, quiet |-> quiet]

\* variant of the rule: only the quiet option makes the run quiet
QuietMode_OptionOnly(logging, option) == option

\* if (OptionGiven("logging")) quiet = true; if (OptionGiven("quiet"))
\* quiet = true
QuietMode(logging, option) == logging \/ option


\* the stream function's locals before its progress meter is set up
NoMeter ==
    [at |-> "idle", encrypting |-> FALSE, quiet |-> FALSE, input_size |-> 0,
     update_interval |-> 0, started |-> FALSE, stride |-> 0]


\* no call of GenerateKeyFile() is in progress
NoGen ==
    [size |-> 0, random |-> <<>>, key |-> <<>>, stdout |-> FALSE,
     before |-> [type |-> "none", data |-> <<>>], created |-> FALSE,
     fault |-> FALSE, rm_threw |-> FALSE, ret |-> "none", read |-> <<>>]

\* no call of ReadTerminalText() is in progress
NoTty ==
    [prior |-> TRUE, opened |-> FALSE, echo_disabled |-> FALSE,
     password_result |-> "Success", password |-> <<>>, ret |-> "none",
     hangup |-> FALSE, zero_reads |-> 0]

\* GenerateKeyFile() is not called
GenIdle ==
    /\ gpc = "idle"
    /\ kf = [type |-> "none", data |-> <<>>]
    /\ gen = NoGen

\* ReadTerminalText() is not called
TtyIdle ==
    /\ tpc = "idle"
    /\ echo = TRUE
    /\ tty = NoTty

\* the loop, the stream protocol and the signal handler before they start
PipelineInit ==
    /\ idx = 1
    /\ out_file = Empty
    /\ remove_on_fail = FALSE
    /\ ifs_open = FALSE
    /\ ofs_open = FALSE
    /\ result = FALSE
    /\ exit_code = "none"
    /\ err = NoError
    /\ terminate = FALSE
    /\ mutex = "free"
    /\ wpc = "w_none"
    /\ complete = FALSE
    /\ cancel = FALSE
    /\ engine_result = "unset"
    /\ engine_cancel = FALSE
    /\ hpc = "h_none"
    /\ hhost = "none"
    /\ sigCount = 0
    /\ termAccess = {}
    /\ termIdx = 0
    /\ log = [i \in 1..MaxFiles |-> NoLog]

\* a run of the batch whose secret is a password given on the command line
Init ==
    /\ mode \in {"Encrypt", "Decrypt"}
    /\ filenames \in FileLists
    /\ outfile_given \in BOOLEAN
    /\ output_file \in (IF outfile_given THEN OutputArgs ELSE {Empty})
    /\ fs \in FileSystems(Paths, mode, filenames, output_file)
    /\ pc = "m_args"
    /\ PipelineInit
    /\ meter = NoMeter
    /\ verbosity = Verbosity(FALSE, FALSE, FALSE)
    /\ GenIdle
    /\ TtyIdle
    /\ options = [decrypt |-> mode = "Decrypt", encrypt |-> mode = "Encrypt",
                  generate |-> FALSE, password |-> "valid",
                  keyfile |-> "absent", keysize |-> "absent",
                  iterations |-> "absent"]
    /\ password = PasswordArg
    /\ key_file = Empty
    /\ key_data = <<>>
    /\ iterations = "default"
    /\ win32 = FALSE
    /\ events = {"parsed", "password_arg"}
    /\ mem = {PasswordContainer}

(* ------------------------------ helpers --------------------------------- *)

file_count == Len(filenames)

stdin_filenames_seen ==
    Cardinality({i \in DOMAIN filenames : filenames[i] = Stdio})

in_file == filenames[idx]

\* std::filesystem::status(path).type()
Status(p) == IF p \in DOMAIN fs THEN fs[p] ELSE "none"

\* the controller runs unless a signal handler is executing on its thread
CtlRuns == ~(hpc # "h_none" /\ hhost = "ctl")

\* the worker runs unless a signal handler is executing on its thread
WrkRuns == ~(hpc # "h_none" /\ hhost = "wrk")

WorkerLive == wpc \in {"w_start", "w_engine", "w_returned", "w_locked"}

\* cv.notify_all(): a controller blocked in cv.wait is made runnable
NotifiedPc == IF pc = "s_sleep" THEN "s_relock" ELSE pc

\* return from EncryptFiles/DecryptFiles, then from main with the exit code
Return(b) ==
    /\ pc' = "done"
    /\ exit_code' = IF b THEN "EXIT_SUCCESS" ELSE "EXIT_FAILURE"
    /\ ifs_open' = FALSE
    /\ ofs_open' = FALSE

\* return false after writing an error line
Fail(text, path) ==
    /\ Return(FALSE)
    /\ err' = Error(text, path)

Touch(field, v) == log' = [log EXCEPT ![idx][field] = v]

(* ------------------------------- main() --------------------------------- *)

\* the checks of main() on the file names and the output file
ArgsRejected ==
    \/ stdin_filenames_seen > 1
    \/ file_count = 0
    \/ outfile_given /\ file_count > 1
    \/ outfile_given /\ output_file = Empty
    \/ ~outfile_given /\ stdin_filenames_seen > 0

\* the error line of the first check of main() that rejects the arguments
ArgsErrorText ==
    IF stdin_filenames_seen > 1
    THEN "stdin (\"-\") cannot be specified more than once"
    ELSE IF file_count = 0 THEN "No input files were given"
    ELSE IF outfile_given /\ file_count > 1
    THEN "Output file cannot be specified when providing multiple input files"
    ELSE IF outfile_given /\ output_file = Empty
    THEN "Empty output file name not allowed"
    ELSE "Since stdin is used for input, an output filename must be specified (may be \"-\")"

\* main(): validate the arguments, install the signal handlers and call
\* EncryptFiles or DecryptFiles
MainArgs ==
    /\ pc = "m_args"
    /\ IF ArgsRejected
       THEN Fail(ArgsErrorText, Empty)
       ELSE /\ pc' = IF mode = "Decrypt" THEN "d_precheck" ELSE "f_begin"
            /\ UNCHANGED << exit_code, err, ifs_open, ofs_open >>
    /\ UNCHANGED << meter, verbosity, genVars, ttyVars, mem, mainVars, configVars, fs, idx, out_file, remove_on_fail, result,
                    terminate, mutex, wpc, streamVars, handlerVars,
                    historyVars >>

(* ------------------- EncryptFiles() / DecryptFiles() -------------------- *)

\* variant of the search: only the first name of the list is looked at
FirstWithoutAES_HeadOnly ==
    IF filenames # << >> /\ ~HasAESExtension(filenames[1]) THEN 1 ELSE 0

\* the first name of the list that does not end in .aes, 0 when all do
FirstWithoutAES ==
    LET bad == {i \in DOMAIN filenames : ~HasAESExtension(filenames[i])}
    IN  IF bad = {} THEN 0 ELSE CHOOSE i \in bad : \A j \in bad : i <= j

\* DecryptFiles(): with no output file every name must end in .aes
DecryptPrecheck ==
    /\ pc = "d_precheck"
    /\ CtlRuns
    /\ IF output_file = Empty /\ FirstWithoutAES # 0
       THEN Fail("Input file does not end with .aes and no output file was specified",
                 filenames[FirstWithoutAES])
       ELSE /\ pc' = "f_begin"
            /\ UNCHANGED << exit_code, err, ifs_open, ofs_open >>
    /\ UNCHANGED << meter, verbosity, genVars, ttyVars, mem, mainVars, configVars, fs, idx, out_file, remove_on_fail, result,
                    terminate, mutex, wpc, streamVars, handlerVars,
                    historyVars >>

\* variant of the loop head: the flag of the previous file is kept
FreshFlag_Keep(old) == old

\* bool remove_on_fail{}: the flag of a new loop iteration
FreshFlag(old) == FALSE

\* head of the for loop: the per-file locals are constructed afresh
LoopHead ==
    /\ pc = "f_begin"
    /\ CtlRuns
    /\ IF idx > file_count
       THEN /\ Return(TRUE)
            /\ UNCHANGED << remove_on_fail, err >>
       ELSE /\ pc' = "f_in_check"
            /\ remove_on_fail' = FreshFlag(remove_on_fail)
            /\ ifs_open' = FALSE
            /\ ofs_open' = FALSE
            /\ UNCHANGED << exit_code, err >>
    /\ UNCHANGED << meter, verbosity, genVars, ttyVars, mem, mainVars, configVars, fs, idx, out_file, result, terminate, mutex,
                    wpc, streamVars, handlerVars, historyVars >>

\* variant of the input check: any existing entry is taken as a file
InputCheckError_ExistsOnly(threw, type) ==
    IF threw THEN "Error checking input file"
    ELSE IF type = "none" THEN "Input file does not exist"
    ELSE "none"

\* the error line of the input check, "none" when the input passes: the status
\* query may throw, the entry must exist and must be a regular file
InputCheckError(threw, type) ==
    IF threw THEN "Error checking input file"
    ELSE IF type = "none" THEN "Input file does not exist"
    ELSE IF type # "file" THEN "Input name is not a file"
    ELSE "none"

\* status of the input file, then the probe of its size; stdin is not looked
\* at
CheckInput ==
    /\ pc = "f_in_check"
    /\ CtlRuns
    /\ IF in_file = Stdio
       THEN /\ out_file' = output_file
            /\ pc' = "f_out_check"
            /\ UNCHANGED << exit_code, err, ifs_open, ofs_open, log >>
       ELSE /\ UNCHANGED out_file
            /\ \E throws \in BOOLEAN :
                 LET error_text == InputCheckError(throws, Status(in_file))
                 IN  IF error_text # "none"
                     THEN /\ Fail(error_text, in_file)
                          /\ Touch("ichk", IF throws THEN "threw"
                                           ELSE Status(in_file))
                     ELSE /\ pc' = "f_in_open"
                          /\ log' = [log EXCEPT
                                        ![idx].ichk = Status(in_file),
                                        ![idx].sized = TRUE]
                          /\ UNCHANGED << exit_code, err, ifs_open, ofs_open >>
    /\ UNCHANGED << meter, verbosity, genVars, ttyVars, mem, mainVars, configVars, fs, idx, remove_on_fail, result, terminate,
                    mutex, wpc, streamVars, handlerVars, termAccess,
                    termIdx >>

\* the output name chosen for an input file that is not stdin
OutNameFor(name) ==
    IF output_file # Empty THEN output_file
    ELSE IF mode = "Encrypt" THEN EncryptOutName(name)
    ELSE DecryptOutName(name)

\* ifs.open(), then the choice of out_file
OpenInput ==
    /\ pc = "f_in_open"
    /\ CtlRuns
    /\ \E opened \in BOOLEAN :
         IF ~opened
         THEN /\ Fail("Unable to open input file", in_file)
              /\ UNCHANGED << out_file, log >>
         ELSE /\ out_file' = OutNameFor(in_file)
              /\ Touch("in", log[idx].in + 1)
              /\ IF out_file' = Empty
                 THEN Fail("To decrypt a file named .aes, one must specify an output file",
                           Empty)
                 ELSE /\ pc' = "f_out_check"
                      /\ ifs_open' = TRUE
                      /\ UNCHANGED << exit_code, err, ofs_open >>
    /\ UNCHANGED << meter, verbosity, genVars, ttyVars, mem, mainVars, configVars, fs, idx, remove_on_fail, result, terminate,
                    mutex, wpc, streamVars, handlerVars, termAccess,
                    termIdx >>

\* variant of the flag: set whenever the output is not a regular file
RemoveOnFailFlag_NotRegular(type) == type # "file"

\* remove_on_fail is set when the output name does not exist
RemoveOnFailFlag(type) == type = "none"

\* std::filesystem::is_directory(file_status)
OutputIsDirectory(type) == type = "dir"

\* variant of the output check: an existing regular file is overwritten
OutputCheckError_Overwrite(threw, type) ==
    IF threw THEN "Unable to open output file"
    ELSE IF type = "dir" THEN "Target output cannot be a directory"
    ELSE "none"

\* the error line of the output check, "none" when the name passes: the
\* status query may throw, the name must be neither a directory nor an
\* existing regular file
OutputCheckError(threw, type) ==
    IF threw THEN "Unable to open output file"
    ELSE IF OutputIsDirectory(type) THEN "Target output cannot be a directory"
    ELSE IF type = "file" THEN "Target output file already exists"
    ELSE "none"

\* status of the output name: no directory, no existing regular file
CheckOutput ==
    /\ pc = "f_out_check"
    /\ CtlRuns
    /\ IF out_file = Stdio
       THEN /\ pc' = "s_spawn"
            /\ log' = [log EXCEPT ![idx].name = out_file]
            /\ UNCHANGED << remove_on_fail, exit_code, err, ifs_open, ofs_open >>
       ELSE \E throws \in BOOLEAN :
              IF throws
              THEN /\ Fail(OutputCheckError(TRUE, Status(out_file)), out_file)
                   /\ log' = [log EXCEPT ![idx].name = out_file,
                                         ![idx].chk = "threw"]
                   /\ UNCHANGED remove_on_fail
              ELSE /\ log' = [log EXCEPT ![idx].name = out_file,
                                         ![idx].chk = Status(out_file)]
                   /\ IF OutputIsDirectory(Status(out_file))
                      THEN /\ Fail(OutputCheckError(FALSE, Status(out_file)),
                                   out_file)
                           /\ UNCHANGED remove_on_fail
                      ELSE /\ remove_on_fail' =
                                  (remove_on_fail
                                      \/ RemoveOnFailFlag(Status(out_file)))
                           /\ IF OutputCheckError(FALSE, Status(out_file))
                                     # "none"
                              THEN Fail(OutputCheckError(FALSE,
                                                         Status(out_file)),
                                        out_file)
                              ELSE /\ pc' = "f_out_open"
                                   /\ UNCHANGED << exit_code, err, ifs_open,
                                                   ofs_open >>
    /\ UNCHANGED << meter, verbosity, genVars, ttyVars, mem, mainVars, configVars, fs, idx, out_file, result, terminate, mutex,
                    wpc, streamVars, handlerVars, termAccess,
                    termIdx >>

\* ofs.open(): creates the file when the name does not exist
OpenOutput ==
    /\ pc = "f_out_open"
    /\ CtlRuns
    /\ \E opened \in BOOLEAN :
         IF ~opened
         THEN /\ Fail("Unable to open output file", out_file)
              /\ UNCHANGED << fs, log >>
         ELSE /\ pc' = "s_spawn"
              /\ ofs_open' = TRUE
              /\ fs' = IF out_file \in DOMAIN fs /\ fs[out_file] = "none"
                       THEN [fs EXCEPT ![out_file] = "file"]
                       ELSE fs
              /\ log' = [log EXCEPT ![idx].out = @ + 1,
                                    ![idx].created = (Status(out_file) = "none"),
                                    ![idx].said = ~verbosity.quiet]
              /\ UNCHANGED << exit_code, err, ifs_open >>
    /\ UNCHANGED << meter, verbosity, genVars, ttyVars, mem, mainVars, configVars, idx, out_file, remove_on_fail, result,
                    terminate, mutex, wpc, streamVars, handlerVars, termAccess,
                    termIdx >>

(* ------------------- EncryptStream() / DecryptStream() ------------------ *)

\* std::thread encrypt_thread(...): the worker starts with fresh locals and
\* a fresh engine object
StartThread ==
    /\ pc = "s_spawn"
    /\ CtlRuns
    /\ pc' = "s_lock"
    /\ wpc' = "w_start"
    /\ complete' = FALSE
    /\ cancel' = FALSE
    /\ engine_result' = "unset"
    /\ engine_cancel' = FALSE
    /\ log' = [log EXCEPT ![idx].thr = @ + 1, ![idx].flag = remove_on_fail]
    /\ UNCHANGED << meter, verbosity, genVars, ttyVars, mem, mainVars, configVars, fs, loopVars, exit_code, err, terminate, mutex,
                    handlerVars, termAccess, termIdx >>

\* std::unique_lock lock(process_control.mutex), and the re-acquisition of
\* the mutex when cv.wait wakes up
LockMutex ==
    /\ pc \in {"s_lock", "s_relock"}
    /\ CtlRuns
    /\ mutex = "free"
    /\ mutex' = "ctl"
    /\ pc' = "s_wait"
    /\ UNCHANGED << meter, verbosity, genVars, ttyVars, mem, mainVars, configVars, fs, loopVars, exit_code, err, terminate, wpc,
                    streamVars, handlerVars, historyVars >>

\* the predicate of cv.wait: encryption_complete || process_control.terminate
WaitDone(comp, term) == comp \/ term

\* cv.wait evaluates its predicate with the mutex held; when it is false the
\* mutex is released and the controller blocks
WaitPredicate ==
    /\ pc = "s_wait"
    /\ CtlRuns
    /\ termAccess' = termAccess \cup
           {[ctx |-> "wait_predicate", locked |-> (mutex = "ctl")]}
    /\ IF WaitDone(complete, terminate)
       THEN /\ pc' = "s_decide"
            /\ UNCHANGED mutex
       ELSE /\ pc' = "s_sleep"
            /\ mutex' = "free"
    /\ UNCHANGED << meter, verbosity, genVars, ttyVars, mem, mainVars, configVars, fs, loopVars, exit_code, err, terminate, wpc,
                    streamVars, handlerVars, termIdx, log >>

\* a condition variable may wake up without a notification
SpuriousWake ==
    /\ pc = "s_sleep"
    /\ CtlRuns
    /\ pc' = "s_relock"
    /\ UNCHANGED << meter, verbosity, genVars, ttyVars, mem, mainVars, configVars, fs, loopVars, exit_code, err, terminate, mutex,
                    wpc, streamVars, handlerVars, historyVars >>

\* variants of the cancel decision: never cancel, cancel on terminate alone
CancelDecision_Never(term, comp) == FALSE

CancelDecision_OnTerminate(term, comp) == term

\* cancel_encryption = process_control.terminate && (!encryption_complete)
CancelDecision(term, comp) == term /\ ~comp

\* the wait has returned: decide on cancellation, then lock.unlock()
CancelDecide ==
    /\ pc = "s_decide"
    /\ CtlRuns
    /\ cancel' = CancelDecision(terminate, complete)
    /\ log' = [log EXCEPT ![idx].obsSeen = TRUE,
                          ![idx].obsTerm = terminate,
                          ![idx].obsComp = complete]
    /\ termAccess' = termAccess \cup
           {[ctx |-> "cancel_decision", locked |-> (mutex = "ctl")]}
    /\ mutex' = "free"
    /\ pc' = "s_cancel"
    /\ UNCHANGED << meter, verbosity, genVars, ttyVars, mem, mainVars, configVars, fs, loopVars, exit_code, err, terminate, wpc,
                    complete, engine_result, engine_cancel, handlerVars,
                    termIdx >>

\* if (cancel_encryption) { "Request cancelled; cleaning up..."; Cancel(); }
DoCancel ==
    /\ pc = "s_cancel"
    /\ CtlRuns
    /\ pc' = "s_join"
    /\ IF cancel
       THEN /\ engine_cancel' = TRUE
            /\ log' = [log EXCEPT ![idx].cancels = @ + 1]
       ELSE UNCHANGED << engine_cancel, log >>
    /\ UNCHANGED << meter, verbosity, genVars, ttyVars, mem, mainVars, configVars, fs, loopVars, exit_code, err, terminate, mutex,
                    wpc, complete, cancel, engine_result, handlerVars,
                    termAccess, termIdx >>

\* variant of the join: the controller does not wait for the worker
JoinReady_NoWait(w) == TRUE

\* encrypt_thread.join() returns once the worker thread has exited
JoinReady(w) == w = "w_exit"

Join ==
    /\ pc = "s_join"
    /\ CtlRuns
    /\ JoinReady(wpc)
    /\ wpc' = IF wpc = "w_exit" THEN "w_none" ELSE wpc
    /\ pc' = "s_result"
    /\ UNCHANGED << meter, verbosity, genVars, ttyVars, mem, mainVars, configVars, fs, loopVars, exit_code, err, terminate, mutex,
                    streamVars, handlerVars, historyVars >>

\* variant of the stream result: only a failure code counts as failure
StreamReturn_CancelOk(res) == res # "Failure"

\* the value EncryptStream/DecryptStream returns for an engine result
StreamReturn(res) == res = "Success"

\* variant of the report: every result but Success is written as an error
ReportsEngineError_Any(res) == res # "Success"

\* a result that is neither Success nor the cancellation code is written to
\* std::cerr
ReportsEngineError(res) == res \notin {"Success", "Cancelled"}

\* inspect the engine result and return from the stream function
StreamResult ==
    /\ pc = "s_result"
    /\ CtlRuns
    /\ result' = StreamReturn(engine_result)
    /\ err' = IF ReportsEngineError(engine_result)
              THEN Error(IF mode = "Encrypt" THEN "Error encrypting file"
                         ELSE "Error decrypting file", Empty)
              ELSE err
    /\ log' = [log EXCEPT ![idx].eng = engine_result,
                          ![idx].sres = IF result' THEN "true" ELSE "false"]
    /\ pc' = "f_close"
    /\ UNCHANGED << meter, verbosity, genVars, ttyVars, mem, mainVars, configVars, fs, idx, out_file, remove_on_fail, ifs_open,
                    ofs_open, exit_code, terminate, mutex, wpc, streamVars,
                    handlerVars, termAccess, termIdx >>

(* ----------------------------- worker thread ---------------------------- *)

\* the worker thread enters encryptor.Encrypt / decryptor.Decrypt; a Cancel()
\* made before the call was entered is either kept or forgotten by the engine
WEnter ==
    /\ wpc = "w_start"
    /\ WrkRuns
    /\ pc # "done"
    /\ wpc' = "w_engine"
    /\ engine_cancel' \in {engine_cancel, FALSE}
    /\ mem' = mem \cup {EngineArgument}
    /\ UNCHANGED << meter, verbosity, genVars, ttyVars, mainVars, configVars, fs, pc, loopVars, exit_code, err, terminate,
                    mutex, complete, cancel, engine_result, handlerVars,
                    historyVars >>

\* the results the engine call may return
EngineOutcomes(cancelled) ==
    IF cancelled THEN {"Cancelled", "Success", "Failure"}
    ELSE {"Success", "Failure"}

\* the engine call returns and its result is assigned
WEngineReturn ==
    /\ wpc = "w_engine"
    /\ WrkRuns
    /\ pc # "done"
    /\ wpc' = "w_returned"
    /\ engine_result' \in EngineOutcomes(engine_cancel)
    /\ mem' = (mem \ {EngineArgument}) \cup {Destroyed(EngineArgument)}
    /\ UNCHANGED << meter, verbosity, genVars, ttyVars, mainVars, configVars, fs, pc, loopVars, exit_code, err, terminate,
                    mutex, complete, cancel, engine_cancel, handlerVars,
                    historyVars >>

\* std::lock_guard lock(process_control.mutex) in the worker
WLock ==
    /\ wpc = "w_returned"
    /\ WrkRuns
    /\ pc # "done"
    /\ mutex = "free"
    /\ mutex' = "wrk"
    /\ wpc' = "w_locked"
    /\ UNCHANGED << meter, verbosity, genVars, ttyVars, mem, mainVars, configVars, fs, pc, loopVars, exit_code, err, terminate,
                    streamVars, handlerVars, historyVars >>

\* encryption_complete = true; cv.notify_all(); the lock guard is released
\* and the thread function ends
WComplete ==
    /\ wpc = "w_locked"
    /\ WrkRuns
    /\ pc # "done"
    /\ complete' = TRUE
    /\ pc' = NotifiedPc
    /\ mutex' = "free"
    /\ wpc' = "w_exit"
    /\ UNCHANGED << meter, verbosity, genVars, ttyVars, mem, mainVars, configVars, fs, loopVars, exit_code, err, terminate, cancel,
                    engine_result, engine_cancel, handlerVars, historyVars >>

(* ------------------ after the stream call, per file --------------------- *)

\* if (ifs.is_open()) ifs.close(); if (ofs.is_open()) { flush; close; }
CloseFiles ==
    /\ pc = "f_close"
    /\ CtlRuns
    /\ ifs_open' = FALSE
    /\ ofs_open' = FALSE
    /\ pc' = "f_cleanup"
    /\ UNCHANGED << meter, verbosity, genVars, ttyVars, mem, mainVars, configVars, fs, idx, out_file, remove_on_fail, result,
                    exit_code, err, terminate, mutex, wpc, streamVars,
                    handlerVars, historyVars >>

\* variant of the failure test: a failed file does not stop the batch
FileFailed_Never(res) == FALSE

\* if (!result): the file failed and the batch stops
FileFailed(res) == ~res

\* variant of the removal test: a failed output is never removed
RemovesOutput_Never(flag) == FALSE

\* if (remove_on_fail): the output of the failed file is removed
RemovesOutput(flag) == flag

\* on failure remove the output when remove_on_fail is set (the removal may
\* itself fail, which is reported) and return false
Cleanup ==
    /\ pc = "f_cleanup"
    /\ CtlRuns
    /\ IF FileFailed(result)
       THEN /\ Return(FALSE)
            /\ IF RemovesOutput(remove_on_fail)
               THEN \E removed \in BOOLEAN :
                      /\ fs' = IF removed /\ out_file \in DOMAIN fs
                               THEN [fs EXCEPT ![out_file] = "none"]
                               ELSE fs
                      /\ err' = IF removed THEN err
                                ELSE Error("Unable to remove output file",
                                           Empty)
                      /\ log' = [log EXCEPT ![idx].rmTried = TRUE,
                                            ![idx].rmOk = removed]
               ELSE UNCHANGED << fs, log, err >>
       ELSE /\ pc' = "f_term"
            /\ UNCHANGED << fs, log, exit_code, err, ifs_open, ofs_open >>
    /\ UNCHANGED << meter, verbosity, genVars, ttyVars, mem, mainVars, configVars, idx, out_file, remove_on_fail, result,
                    terminate, mutex, wpc, streamVars, handlerVars, termAccess,
                    termIdx >>

\* variant of the termination check: the loop goes on to the next file
StopRequested_Never(term) == FALSE

\* if (process_control.terminate) return false;
StopRequested(term) == term

\* the termination check that ends each loop iteration
TermCheck ==
    /\ pc = "f_term"
    /\ CtlRuns
    /\ termAccess' = termAccess \cup
           {[ctx |-> "batch_loop", locked |-> (mutex = "ctl")]}
    /\ IF StopRequested(terminate)
       THEN /\ Return(FALSE)
            /\ UNCHANGED << idx, err >>
       ELSE /\ idx' = idx + 1
            /\ pc' = "f_begin"
            /\ UNCHANGED << exit_code, err, ifs_open, ofs_open >>
    /\ UNCHANGED << meter, verbosity, genVars, ttyVars, mem, mainVars, configVars, fs, out_file, remove_on_fail, result,
                    terminate, mutex, wpc, streamVars, handlerVars, termIdx, log >>

(* ---------------------------- SignalHandler() --------------------------- *)

\* the signals InstallSignalHandlers() routes to SignalHandler()
InstalledSignals == {"SIGABRT", "SIGHUP", "SIGINT", "SIGQUIT", "SIGTERM"}

\* the switch of SignalHandler(): the local terminate
TerminateFor(signal_number) ==
    signal_number \in {"SIGABRT", "SIGINT", "SIGTERM", "SIGHUP", "SIGQUIT"}

\* the threads a signal may interrupt; "new" is a thread of its own
Hosts == {"ctl", "new"} \cup (IF WorkerLive THEN {"wrk"} ELSE {})

\* a signal is delivered once the handlers are installed
Signal ==
    /\ pc \notin {"m_args", "done"}
    /\ hpc = "h_none"
    /\ sigCount < MaxSignals
    /\ \E signal_number \in InstalledSignals, host \in Hosts :
         IF TerminateFor(signal_number)
         THEN hhost' = host /\ hpc' = "h_lock"
         ELSE UNCHANGED << hhost, hpc >>
    /\ sigCount' = sigCount + 1
    /\ UNCHANGED << meter, verbosity, genVars, ttyVars, mem, mainVars, configVars, fs, pc, loopVars, exit_code, err, terminate,
                    mutex, wpc, streamVars, historyVars >>

\* std::lock_guard lock(process_control.mutex) in the handler
HLock ==
    /\ hpc = "h_lock"
    /\ pc # "done"
    /\ mutex = "free"
    /\ mutex' = "sig"
    /\ hpc' = "h_set"
    /\ UNCHANGED << meter, verbosity, genVars, ttyVars, mem, mainVars, configVars, fs, pc, loopVars, exit_code, err, terminate, wpc,
                    streamVars, hhost, sigCount, historyVars >>

\* variant of the handler's store: the flag is toggled
HandlerStore_Toggle(old) == ~old

\* the value the handler stores into process_control.terminate
HandlerStore(old) == TRUE

\* process_control.terminate = true
HSet ==
    /\ hpc = "h_set"
    /\ pc # "done"
    /\ terminate' = HandlerStore(terminate)
    /\ termAccess' = termAccess \cup
           {[ctx |-> "signal_handler", locked |-> (mutex = "sig")]}
    /\ termIdx' = IF termIdx = 0 THEN idx ELSE termIdx
    /\ log' = IF wpc \in {"w_start", "w_engine"}
              THEN [log EXCEPT ![idx].termRun = TRUE]
              ELSE log
    /\ hpc' = "h_notify"
    /\ UNCHANGED << meter, verbosity, genVars, ttyVars, mem, mainVars, configVars, fs, pc, loopVars, exit_code, err, mutex, wpc,
                    streamVars, hhost, sigCount >>

\* process_control.cv.notify_all(); the lock guard is released on return
HNotify ==
    /\ hpc = "h_notify"
    /\ pc # "done"
    /\ pc' = NotifiedPc
    /\ mutex' = "free"
    /\ hpc' = "h_none"
    /\ hhost' = "none"
    /\ UNCHANGED << meter, verbosity, genVars, ttyVars, mem, mainVars, configVars, fs, loopVars, exit_code, err, terminate, wpc,
                    streamVars, sigCount, historyVars >>

(* --------------------- main(): options and the secret ------------------- *)

\* main() returns EXIT_FAILURE after writing an error line
MainFail(text) ==
    /\ pc' = "done"
    /\ exit_code' = "EXIT_FAILURE"
    /\ err' = Error(text, Empty)

\* main() goes on to its next block
MainStep(next) ==
    /\ pc' = next
    /\ UNCHANGED << exit_code, err >>

\* setlocale(), then ParseOptions(): a parse error, a help or version
\* request, or the options are handed to the checks of main()
OParse ==
    /\ pc = "o_parse"
    /\ \E outcome \in {"locale", "error", "info", "ok"} :
         CASE outcome = "locale" ->
                /\ ~win32
                /\ MainFail("Failed to set the local based on the current environment")
                /\ UNCHANGED events
           [] outcome = "error" ->
                /\ MainFail("program options error")
                /\ UNCHANGED events
           [] outcome = "info" ->
                /\ pc' = "done"
                /\ exit_code' = "EXIT_SUCCESS"
                /\ events' = events \cup {"usage"}
                /\ UNCHANGED err
           [] outcome = "ok" ->
                /\ MainStep("o_files")
                /\ events' = events \cup {"parsed"}
    /\ UNCHANGED << meter, verbosity, genVars, ttyVars, mem, configVars, pipeVars, options, password, key_file,
                    key_data, iterations, win32 >>

\* the file names: "-" may be given once
OFiles ==
    /\ pc = "o_files"
    /\ IF stdin_filenames_seen > 1
       THEN MainFail("stdin (\"-\") cannot be specified more than once")
       ELSE MainStep("o_mode")
    /\ UNCHANGED << meter, verbosity, genVars, ttyVars, mem, configVars, pipeVars, mainVars >>

\* the mode after the decrypt, encrypt and generate options were looked at in
\* this order, and the error line of the block, "none" when it passes
ModeChoice ==
    LET m1 == IF options.decrypt THEN "Decrypt" ELSE "Undefined"
    IN  IF options.encrypt /\ m1 # "Undefined"
        THEN [mode |-> m1, error |-> "More than one mode was specified"]
        ELSE LET m2 == IF options.encrypt THEN "Encrypt" ELSE m1
             IN  IF options.generate /\ m2 # "Undefined"
                 THEN [mode |-> m2,
                       error |-> "More than one mode was specified"]
                 ELSE IF options.generate /\ file_count > 0
                 THEN [mode |-> m2,
                       error |-> "Cannot specify input files when generating a key"]
                 ELSE LET m3 == IF options.generate THEN "KeyGenerate" ELSE m2
                      IN  IF m3 = "Undefined"
                          THEN [mode |-> m3,
                                error |-> "Specify either encrypt (-e), decrypt (-d), or generate (-g) mode"]
                          ELSE IF m3 # "KeyGenerate" /\ file_count = 0
                          THEN [mode |-> m3,
                                error |-> "No input files were given"]
                          ELSE [mode |-> m3, error |-> "none"]

\* the operational mode: exactly one of decrypt, encrypt, generate
OMode ==
    /\ pc = "o_mode"
    /\ mode' = ModeChoice.mode
    /\ IF ModeChoice.error # "none"
       THEN MainFail(ModeChoice.error)
       ELSE MainStep("o_password")
    /\ UNCHANGED << meter, verbosity, genVars, ttyVars, mem, filenames, outfile_given, output_file,
                    pipeVars, mainVars >>

\* the error line of the password block, "none" when the password is taken
PasswordError(m, arg) ==
    IF m = "KeyGenerate"
    THEN "Cannot specify a password when generating a key"
    ELSE IF arg = "empty" THEN "Password argument cannot be empty"
    ELSE IF arg = "invalid" THEN "Password is not in UTF-8 format"
    ELSE "none"

\* the password option
OPassword ==
    /\ pc = "o_password"
    /\ IF options.password = "absent"
       THEN /\ MainStep("o_keyfile")
            /\ UNCHANGED << password, events >>
       ELSE IF PasswordError(mode, options.password) # "none"
       THEN /\ MainFail(PasswordError(mode, options.password))
            /\ UNCHANGED << password, events >>
       ELSE /\ MainStep("o_keyfile")
            /\ password' = PasswordArg
            /\ events' = events \cup {"password_arg"}
    /\ mem' = IF options.password \in {"invalid", "valid"}
                 /\ mode # "KeyGenerate"
              THEN mem \cup {Destroyed(Container("option_string", "ordinary")),
                             Destroyed(Container("user_password", "secure"))}
                       \cup (IF options.password = "valid"
                             THEN {PasswordContainer} ELSE {})
              ELSE mem
    /\ UNCHANGED << meter, verbosity, genVars, ttyVars, configVars, pipeVars, options, key_file, key_data,
                    iterations, win32 >>

\* variant of the conflict test: a key file may come with a password
KeyFileConflict_Never(pw) == FALSE

\* if (!password.empty()): a key file cannot come with a password
KeyFileConflict(pw) == pw # <<>>

\* options_parser.GetOptionString("keyfile")
KeyFileArg(arg) ==
    IF arg = "stdin" THEN Stdio
    ELSE IF arg = "name" THEN NameKey
    ELSE Empty

\* the key file option
OKeyFile ==
    /\ pc = "o_keyfile"
    /\ IF options.keyfile = "absent"
       THEN /\ MainStep("o_keysize")
            /\ UNCHANGED key_file
       ELSE IF KeyFileConflict(password)
       THEN /\ MainFail("Password and key file cannot both be specified")
            /\ UNCHANGED key_file
       ELSE /\ key_file' = KeyFileArg(options.keyfile)
            /\ IF key_file' = Empty
               THEN MainFail("Key file argument cannot be empty")
               ELSE IF key_file' = Stdio /\ mode # "KeyGenerate"
               THEN MainFail("When encrypting or decrypting, the key file cannot be stdin")
               ELSE MainStep("o_keysize")
    /\ UNCHANGED << meter, verbosity, genVars, ttyVars, mem, configVars, pipeVars, options, password, key_data,
                    iterations, win32, events >>

\* the key size option: generate mode only, GetOptionValue throws when the
\* value is out of range
OKeySize ==
    /\ pc = "o_keysize"
    /\ IF options.keysize = "absent"
       THEN MainStep("o_iterations")
       ELSE IF mode # "KeyGenerate"
       THEN MainFail("Key length only valid when generating a key file")
       ELSE \E in_range \in BOOLEAN :
              IF in_range THEN MainStep("o_iterations")
              ELSE MainFail("option value out of range")
    /\ UNCHANGED << meter, verbosity, genVars, ttyVars, mem, configVars, pipeVars, mainVars >>

\* the iterations option: outside encrypt mode an error line is written and
\* main() goes on; GetOptionValue throws when the value is out of range
OIterations ==
    /\ pc = "o_iterations"
    /\ IF options.iterations = "absent"
       THEN /\ MainStep("o_outfile")
            /\ UNCHANGED iterations
       ELSE \E in_range \in BOOLEAN :
              IF ~in_range
              THEN /\ MainFail("option value out of range")
                   /\ UNCHANGED iterations
              ELSE /\ pc' = "o_outfile"
                   /\ iterations' = "user"
                   /\ err' = IF mode # "Encrypt"
                             THEN Error("Iteration value valid only when encrypting",
                                        Empty)
                             ELSE err
                   /\ UNCHANGED exit_code
    /\ UNCHANGED << meter, verbosity, genVars, ttyVars, mem, configVars, pipeVars, options, password, key_file,
                    key_data, win32, events >>

\* variant of the test: any number of inputs may share one output file
TooManyInputs_Never(n) == FALSE

\* if (file_count > 1): one output file cannot serve several inputs
TooManyInputs(n) == n > 1

\* the error line of the output file block, "none" when it passes
OutfileError ==
    IF outfile_given
    THEN IF TooManyInputs(file_count)
         THEN "Output file cannot be specified when providing multiple input files"
         ELSE IF mode = "KeyGenerate"
         THEN "Output file cannot be specified when generating a key file"
         ELSE IF output_file = Empty
         THEN "Empty output file name not allowed"
         ELSE "none"
    ELSE IF stdin_filenames_seen > 0
         THEN "Since stdin is used for input, an output filename must be specified (may be \"-\")"
         ELSE "none"

\* the output file option
OOutfile ==
    /\ pc = "o_outfile"
    /\ IF OutfileError # "none"
       THEN MainFail(OutfileError)
       ELSE MainStep("o_generate")
    /\ UNCHANGED << meter, verbosity, genVars, ttyVars, mem, configVars, pipeVars, mainVars >>

\* if (mode == AESCryptMode::KeyGenerate): generate the key file and return
OGenerate ==
    /\ pc = "o_generate"
    /\ IF mode # "KeyGenerate"
       THEN /\ MainStep("o_readkey")
            /\ UNCHANGED events
       ELSE IF key_file = Empty
       THEN /\ MainFail("To generate a key, specify the name of the key file")
            /\ UNCHANGED events
       ELSE /\ events' = events \cup {"keyfile_generated"}
            /\ \E generated \in BOOLEAN :
                 IF generated
                 THEN /\ pc' = "done"
                      /\ exit_code' = "EXIT_SUCCESS"
                      /\ UNCHANGED err
                 ELSE MainFail("Unable to generate the key file")
    /\ UNCHANGED << meter, verbosity, genVars, ttyVars, mem, configVars, pipeVars, options, password, key_file,
                    key_data, iterations, win32 >>

\* if (password.empty()): the key file gave no key
NoKey(pw) == pw = <<>>

\* if (!key_file.empty()): password = ReadKeyFile(logger, key_file); the file
\* may fail to open or to be read, which gives the empty key
OReadKey ==
    /\ pc = "o_readkey"
    /\ IF key_file = Empty
       THEN /\ MainStep("o_prompt")
            /\ UNCHANGED << password, events >>
       ELSE \E readable \in BOOLEAN :
              /\ password' = IF readable THEN ReadKeyFile(key_data) ELSE <<>>
              /\ events' = events \cup
                     (IF readable THEN {"keyfile_read"}
                      ELSE {"keyfile_read", "keyfile_unreadable"})
              /\ IF NoKey(password')
                 THEN MainFail("Unable to get a key from the key file")
                 ELSE MainStep("o_prompt")
    /\ mem' = IF password' # <<>> THEN mem \cup {PasswordContainer} ELSE mem
    /\ UNCHANGED << meter, verbosity, genVars, ttyVars, configVars, pipeVars, options, key_file,
                    key_data, iterations, win32 >>

\* the error line for a result of GetUserPassword(), "none" for Success
PromptError(prompt_result) ==
    IF prompt_result = "Success" THEN "none"
    ELSE IF prompt_result = "Mismatch" THEN "Passwords do not match"
    ELSE IF prompt_result = "NoInput" THEN "No input received"
    ELSE "Failed to get a password"

\* if (password.empty()): prompt for a password
OPrompt ==
    /\ pc = "o_prompt"
    /\ IF password # <<>>
       THEN /\ MainStep("o_batch")
            /\ UNCHANGED << password, events >>
       ELSE IF win32 /\ output_file = Stdio
       THEN /\ MainFail("On Windows, output to stdout requires a password given via -p or -k")
            /\ UNCHANGED << password, events >>
       ELSE /\ events' = events \cup {"prompted"}
            /\ \E prompt_result \in {"Success", "Mismatch", "NoInput",
                                     "UnspecifiedError"},
                  user_password \in {<<>>, PromptText} :
                 IF PromptError(prompt_result) # "none"
                 THEN /\ MainFail(PromptError(prompt_result))
                      /\ UNCHANGED password
                 ELSE IF user_password = <<>>
                 THEN /\ MainFail("Password is empty")
                      /\ UNCHANGED password
                 ELSE /\ MainStep("o_batch")
                      /\ password' = user_password
    /\ mem' = IF password' # <<>> THEN mem \cup {PasswordContainer} ELSE mem
    /\ UNCHANGED << meter, verbosity, genVars, ttyVars, configVars, pipeVars, options, key_file,
                    key_data, iterations, win32 >>

\* InstallSignalHandlers(), then EncryptFiles() or DecryptFiles() with the
\* secret; the exit code is the result of the batch
OBatch ==
    /\ pc = "o_batch"
    /\ events' = events \cup {"batch"}
    /\ \E batch_result \in BOOLEAN :
         /\ pc' = "done"
         /\ exit_code' = IF batch_result THEN "EXIT_SUCCESS"
                         ELSE "EXIT_FAILURE"
    /\ UNCHANGED << meter, verbosity, genVars, ttyVars, mem, configVars, pipeVars, err, options, password, key_file,
                    key_data, iterations, win32 >>

(* --------------------------- GenerateKeyFile() -------------------------- *)

MaxGenLen == 3

\* static const char Key_Characters[64]: A-Z, a-z, 0-9, '_', '+'
Key_Characters ==
    [k \in 1..64 |->
        IF k <= 26 THEN 64 + k
        ELSE IF k <= 52 THEN 96 + (k - 26)
        ELSE IF k <= 62 THEN 47 + (k - 52)
        ELSE IF k = 63 THEN 95
        ELSE 43]

\* variant of the conversion: a mask of five bits
KeyCharacter_Mask5(value) == Key_Characters[(value % 32) + 1]

\* value = Key_Characters[(value & 0x3f)]
KeyCharacter(value) == Key_Characters[(value % 64) + 1]

\* the octets rng.GetRandomOctets() may give, of every bit pattern class
RandomOctets == {0, 26, 52, 62, 63, 64, 138, 255}

\* the key file path before the call: absent, a regular file with some
\* content, a directory, or another kind of entry (device, pipe)
KeyFileStates ==
    { [type |-> "none", data |-> <<>>],
      [type |-> "file", data |-> << 65, 66, 10 >>],
      [type |-> "dir", data |-> <<>>],
      [type |-> "other", data |-> <<>>] }

\* the strict prefixes of an octet string
StrictPrefixes(s) == { SubSeq(s, 1, n) : n \in 0..(Len(s) - 1) }

\* variant of the existence check: nothing is taken to exist
TargetExists_Never(type) == FALSE

\* std::filesystem::is_regular_file(path)
TargetExists(type) == type = "file"

\* GenerateKeyFile() returns
GenReturn(value) ==
    /\ gpc' = "g_returned"
    /\ gen' = [gen EXCEPT !.ret = value]

\* if (key_file != "-"): refuse an existing regular file; the status query
\* may throw, which also returns false
GCheck ==
    /\ gpc = "g_check"
    /\ IF gen.stdout
       THEN gpc' = "g_write" /\ UNCHANGED gen
       ELSE \E threw \in BOOLEAN :
              IF threw
              THEN /\ gpc' = "g_returned"
                   /\ gen' = [gen EXCEPT !.ret = FALSE, !.fault = TRUE]
              ELSE IF TargetExists(kf.type)
              THEN GenReturn(FALSE)
              ELSE gpc' = "g_open" /\ UNCHANGED gen
    /\ UNCHANGED << kf, progVars, ttyVars >>

\* file_stream.open(path, std::ios::out): creates the file when the path is
\* free; the stream is not good when the open failed
GOpen ==
    /\ gpc = "g_open"
    /\ \E opened \in (IF kf.type = "dir" THEN {FALSE} ELSE BOOLEAN) :
         IF opened
         THEN /\ gpc' = "g_write"
              /\ kf' = IF kf.type = "other" THEN kf
                       ELSE [type |-> "file", data |-> <<>>]
              /\ gen' = [gen EXCEPT !.created = (kf.type = "none")]
         ELSE /\ gpc' = "g_returned"
              /\ gen' = [gen EXCEPT !.ret = FALSE, !.fault = TRUE]
              /\ UNCHANGED kf
    /\ UNCHANGED << progVars, ttyVars >>

\* the random octets are converted and written to the stream, which buffers
\* them; when the stream is not good afterwards a part of the key may have
\* reached the file
GWrite ==
    /\ gpc = "g_write"
    /\ \E good \in BOOLEAN :
         IF good
         THEN /\ gpc' = "g_flush"
              /\ gen' = [gen EXCEPT
                           !.key = [i \in 1..gen.size |->
                                       KeyCharacter(gen.random[i])]]
              /\ UNCHANGED kf
         ELSE /\ gpc' = "g_remove"
              /\ gen' = [gen EXCEPT
                           !.key = [i \in 1..gen.size |->
                                       KeyCharacter(gen.random[i])],
                           !.fault = TRUE]
              /\ \E part \in StrictPrefixes(gen'.key) \cup {<<>>} :
                   kf' = IF gen.stdout \/ kf.type # "file" THEN kf
                         ELSE [kf EXCEPT !.data = part]
    /\ UNCHANGED << progVars, ttyVars >>

\* if (!stream.good()): close and remove the key file, return false; the
\* removal may throw, which leaves the file
GRemove ==
    /\ gpc = "g_remove"
    /\ IF gen.stdout
       THEN GenReturn(FALSE) /\ UNCHANGED kf
       ELSE \E threw \in BOOLEAN :
              /\ gpc' = "g_returned"
              /\ gen' = [gen EXCEPT !.ret = FALSE, !.rm_threw = threw]
              /\ kf' = IF threw THEN kf ELSE [type |-> "none", data |-> <<>>]
    /\ UNCHANGED << progVars, ttyVars >>

\* file_stream.flush(); file_stream.close(); return true: the buffered key
\* reaches the file here, and the outcome of neither call is looked at
GFlush ==
    /\ gpc = "g_flush"
    /\ \E flushed \in BOOLEAN :
         /\ gpc' = "g_returned"
         /\ gen' = [gen EXCEPT !.ret = TRUE,
                               !.fault = gen.fault \/ ~flushed]
         /\ \E part \in (IF flushed THEN {gen.key}
                         ELSE StrictPrefixes(gen.key) \cup {<<>>}) :
              kf' = IF gen.stdout \/ kf.type # "file" THEN kf
                    ELSE [kf EXCEPT !.data = part]
    /\ UNCHANGED << progVars, ttyVars >>

\* ReadKeyFile() on the path GenerateKeyFile() was given
GRead ==
    /\ gpc = "g_returned"
    /\ ~gen.stdout
    /\ \E readable \in (IF kf.type \in {"none", "dir"} THEN {FALSE}
                        ELSE BOOLEAN) :
         /\ gpc' = "g_read"
         /\ gen' = [gen EXCEPT
                      !.read = IF readable THEN ReadKeyFile(kf.data) ELSE <<>>,
                      !.fault = gen.fault \/ (~readable /\ kf.type = "file")]
    /\ UNCHANGED << kf, progVars, ttyVars >>

\* a call of GenerateKeyFile() for every size, random octets and target
GenInit ==
    /\ gpc = "g_check"
    /\ kf \in KeyFileStates
    /\ \E n \in 0..MaxGenLen, out \in BOOLEAN :
         \E random \in { s \in OctetStrings(RandomOctets, MaxGenLen) :
                            Len(s) = n } :
           gen = [NoGen EXCEPT !.size = n, !.random = random,
                               !.stdout = out, !.before = kf]
    /\ TtyIdle
    /\ mode = "KeyGenerate"
    /\ filenames = <<>>
    /\ outfile_given = FALSE
    /\ output_file = Empty
    /\ fs = [p \in Paths |-> "none"]
    /\ pc = "o_generate"
    /\ PipelineInit
    /\ meter = NoMeter
    /\ verbosity = Verbosity(FALSE, FALSE, FALSE)
    /\ mem = {}
    /\ options = [decrypt |-> FALSE, encrypt |-> FALSE, generate |-> TRUE,
                  password |-> "absent", keyfile |-> "name",
                  keysize |-> "absent", iterations |-> "absent"]
    /\ password = <<>>
    /\ key_file = NameKey
    /\ key_data = <<>>
    /\ iterations = "default"
    /\ win32 = FALSE
    /\ events = {"parsed"}

GenNext == GCheck \/ GOpen \/ GWrite \/ GRemove \/ GFlush \/ GRead

GenSpec == GenInit /\ [][GenNext]_vars

(* --------------------------- ReadTerminalText() ------------------------- *)

MaxTextLen == 2

MaxZeroReads == 2

\* the octets read() may deliver: ENTER, a control character, text
TypedOctets == {10, 7, 97, 98}

\* ReadTerminalText() returns the pair {value, text}
TtyReturn(value, text) ==
    /\ tpc' = "t_returned"
    /\ tty' = [tty EXCEPT !.ret = value, !.password = text]

\* int fd = open("/dev/tty", O_RDWR | O_CLOEXEC)
TOpen ==
    /\ tpc = "t_open"
    /\ \E opened \in BOOLEAN :
         IF opened
         THEN /\ tpc' = "t_echo_off"
              /\ tty' = [tty EXCEPT !.opened = TRUE]
         ELSE TtyReturn("UnspecifiedError", <<>>)
    /\ UNCHANGED << echo, genVars, progVars >>

\* TurnOffEcho(): clears ECHO when it is set; a failure of tcgetattr or
\* tcsetattr returns {false, false} and ReadTerminalText() returns
TEchoOff ==
    /\ tpc = "t_echo_off"
    /\ \E got \in BOOLEAN, set \in BOOLEAN :
         IF ~got
         THEN TtyReturn("UnspecifiedError", <<>>) /\ UNCHANGED echo
         ELSE IF echo
         THEN IF set
              THEN /\ echo' = FALSE
                   /\ tpc' = "t_prompt"
                   /\ tty' = [tty EXCEPT !.echo_disabled = TRUE]
              ELSE TtyReturn("UnspecifiedError", <<>>) /\ UNCHANGED echo
         ELSE /\ tpc' = "t_prompt"
              /\ UNCHANGED << echo, tty >>
    /\ UNCHANGED << genVars, progVars >>

\* write(fd, prompt): on failure close(fd) and return
TPrompt ==
    /\ tpc = "t_prompt"
    /\ \E written \in BOOLEAN :
         IF written
         THEN tpc' = "t_read" /\ UNCHANGED tty
         ELSE TtyReturn("UnspecifiedError", <<>>)
    /\ UNCHANGED << echo, genVars, progVars >>

\* one turn of the read loop: a read error or ENTER ends it, a read of
\* nothing goes on to the next read, a control character is dropped, any
\* other octet is appended; a terminal that has hung up is at end of input
\* for every later read
TRead ==
    /\ tpc = "t_read"
    /\ \/ /\ ~tty.hangup
          /\ tpc' = "t_restore"
          /\ tty' = [tty EXCEPT !.password_result = "UnspecifiedError"]
       \/ \E gone \in {tty.hangup, TRUE} :
            /\ tty' = [tty EXCEPT
                         !.hangup = gone,
                         !.zero_reads = IF @ < MaxZeroReads THEN @ + 1 ELSE @]
            /\ UNCHANGED tpc
       \/ \E c \in TypedOctets :
            /\ ~tty.hangup
            /\ IF c = 10
               THEN \E written \in BOOLEAN :
                      /\ tpc' = "t_restore"
                      /\ tty' = IF written THEN tty
                                ELSE [tty EXCEPT
                                        !.password_result = "UnspecifiedError"]
               ELSE IF c < 32
               THEN UNCHANGED << tpc, tty >>
               ELSE /\ Len(tty.password) < MaxTextLen
                    /\ tty' = [tty EXCEPT !.password = Append(@, c)]
                    /\ UNCHANGED tpc
    /\ UNCHANGED << echo, genVars, progVars >>

\* if (echo_disabled) TurnOnEcho(logger, fd), its result not looked at;
\* close(fd); an empty text on success is NoInput
TRestore ==
    /\ tpc = "t_restore"
    /\ \E got \in BOOLEAN, set \in BOOLEAN :
         echo' = IF tty.echo_disabled /\ got /\ ~echo /\ set THEN TRUE
                 ELSE echo
    /\ IF tty.password_result = "Success" /\ tty.password = <<>>
       THEN TtyReturn("NoInput", <<>>)
       ELSE TtyReturn(tty.password_result, tty.password)
    /\ UNCHANGED << genVars, progVars >>

\* a call of ReadTerminalText() on a terminal with echo on or off
TtyInit ==
    /\ tpc = "t_open"
    /\ echo \in BOOLEAN
    /\ tty = [NoTty EXCEPT !.prior = echo]
    /\ GenIdle
    /\ mode \in {"Encrypt", "Decrypt"}
    /\ filenames = << NameX >>
    /\ outfile_given = FALSE
    /\ output_file = Empty
    /\ fs = [p \in Paths |-> "none"]
    /\ pc = "o_prompt"
    /\ PipelineInit
    /\ meter = NoMeter
    /\ verbosity = Verbosity(FALSE, FALSE, FALSE)
    /\ mem = {}
    /\ options = [decrypt |-> mode = "Decrypt", encrypt |-> mode = "Encrypt",
                  generate |-> FALSE, password |-> "absent",
                  keyfile |-> "absent", keysize |-> "absent",
                  iterations |-> "absent"]
    /\ password = <<>>
    /\ key_file = Empty
    /\ key_data = <<>>
    /\ iterations = "default"
    /\ win32 = FALSE
    /\ events = {"parsed"}

TtyNext == TOpen \/ TEchoOff \/ TPrompt \/ TRead \/ TRestore

TtySpec == TtyInit /\ [][TtyNext]_vars

\* the thread that runs ReadTerminalText() is scheduled whenever it can
\* take a step
TtyFairSpec == TtySpec /\ WF_vars(TtyNext)

(* --------------------------- specification ------------------------------ *)

Next ==
    \/ MainArgs
    \/ DecryptPrecheck
    \/ LoopHead
    \/ CheckInput
    \/ OpenInput
    \/ CheckOutput
    \/ OpenOutput
    \/ StartThread
    \/ LockMutex
    \/ WaitPredicate
    \/ SpuriousWake
    \/ CancelDecide
    \/ DoCancel
    \/ Join
    \/ StreamResult
    \/ CloseFiles
    \/ Cleanup
    \/ TermCheck
    \/ WEnter
    \/ WEngineReturn
    \/ WLock
    \/ WComplete
    \/ Signal
    \/ HLock
    \/ HSet
    \/ HNotify

Spec == Init /\ [][Next]_vars

(* ------------------ main(): logging and quiet ---------------------------- *)

\* "Was logging requested?" and "Was quiet operation requested?": the logger
\* writes to std::cerr or to a null stream, and quiet is set by either option
OLogging ==
    /\ pc = "o_logging"
    /\ \E logging \in BOOLEAN, option \in BOOLEAN :
         verbosity' = Verbosity(logging, option, QuietMode(logging, option))
    /\ pc' = "m_args"
    /\ UNCHANGED << meter, genVars, ttyVars, mem, configVars, pipeVars,
                    mainVars, exit_code, err >>

\* a run over one input file, entered before the logging and quiet options
\* are looked at
LogInit ==
    /\ mode \in {"Encrypt", "Decrypt"}
    /\ filenames \in { f \in FileLists : Len(f) = 1 }
    /\ outfile_given \in BOOLEAN
    /\ output_file \in (IF outfile_given THEN OutputArgs ELSE {Empty})
    /\ fs \in FileSystems(Paths, mode, filenames, output_file)
    /\ pc = "o_logging"
    /\ PipelineInit
    /\ meter = NoMeter
    /\ verbosity = Verbosity(FALSE, FALSE, FALSE)
    /\ GenIdle
    /\ TtyIdle
    /\ options = [decrypt |-> mode = "Decrypt", encrypt |-> mode = "Encrypt",
                  generate |-> FALSE, password |-> "valid",
                  keyfile |-> "absent", keysize |-> "absent",
                  iterations |-> "absent"]
    /\ password = PasswordArg
    /\ key_file = Empty
    /\ key_data = <<>>
    /\ iterations = "default"
    /\ win32 = FALSE
    /\ events = {"parsed", "password_arg"}
    /\ mem = {PasswordContainer}

LogNext ==
    \/ OLogging
    \/ Next

LogSpec == LogInit /\ [][LogNext]_vars

(* ------------------- the batch under a fair scheduler -------------------- *)

\* the steps of the main thread
Controller ==
    \/ MainArgs
    \/ DecryptPrecheck
    \/ LoopHead
    \/ CheckInput
    \/ OpenInput
    \/ CheckOutput
    \/ OpenOutput
    \/ StartThread
    \/ LockMutex
    \/ WaitPredicate
    \/ CancelDecide
    \/ DoCancel
    \/ Join
    \/ StreamResult
    \/ CloseFiles
    \/ Cleanup
    \/ TermCheck

\* the steps of the worker thread; the engine call returns
Worker ==
    \/ WEnter
    \/ WEngineReturn
    \/ WLock
    \/ WComplete

\* the steps of SignalHandler() once a signal is delivered
Handler ==
    \/ HLock
    \/ HSet
    \/ HNotify

\* every thread that can take a step is scheduled in the end, and a thread
\* waiting for a mutex that is free again and again gets it in the end;
\* signals and spurious wake-ups may or may not come
Fairness ==
    /\ WF_vars(Controller)
    /\ WF_vars(Worker)
    /\ WF_vars(Handler)
    /\ SF_vars(LockMutex)
    /\ SF_vars(WLock)
    /\ SF_vars(HLock)

\* a run over one input file with no output file given
FairInit ==
    /\ Init
    /\ Len(filenames) = 1
    /\ ~outfile_given

FairSpec == FairInit /\ [][Next]_vars /\ Fairness

(* ------------- EncryptStream() / DecryptStream(): the meter -------------- *)

\* stands for Terra::ConIO::ProgressMeter::Default_Maximum_Width
MeterWidth == 2

\* the factor of the smallest interval that drives the meter
MeterSteps == 16

MaxInputSize == 70

\* update_interval = input_size / Default_Maximum_Width, set to 0 when it is
\* below Default_Maximum_Width * 16
UpdateInterval(input_size) ==
    IF input_size \div MeterWidth < MeterWidth * MeterSteps THEN 0
    ELSE input_size \div MeterWidth

\* the last argument of encryptor.Encrypt() and of decryptor.Decrypt()
EngineStride(encrypting, input_size, update_interval) ==
    IF encrypting THEN input_size \div MeterWidth ELSE update_interval

\* the stream function is entered: the interval is computed and the meter is
\* started when the interval is not zero
MInterval ==
    /\ meter.at = "entered"
    /\ meter' = [meter EXCEPT
                   !.at = "ready",
                   !.update_interval = UpdateInterval(meter.input_size),
                   !.started = UpdateInterval(meter.input_size) > 0]
    /\ UNCHANGED << genVars, ttyVars, configVars, pipeVars, mainVars, pc,
                    exit_code, err, mem, verbosity >>

\* the worker thread calls the engine
MEngineCall ==
    /\ meter.at = "ready"
    /\ meter' = [meter EXCEPT
                   !.at = "called",
                   !.stride = EngineStride(meter.encrypting, meter.input_size,
                                           meter.update_interval)]
    /\ UNCHANGED << genVars, ttyVars, configVars, pipeVars, mainVars, pc,
                    exit_code, err, mem, verbosity >>

\* a stream function entered for an input of any size
MeterInit ==
    /\ Init
    /\ filenames = << NameX >>
    /\ ~outfile_given
    /\ \A p \in DOMAIN fs : fs[p] = (IF p = NameX THEN "file" ELSE "none")

MeterEnter ==
    /\ meter.at = "idle"
    /\ \E input_size \in 0..MaxInputSize, quiet \in BOOLEAN :
         meter' = [NoMeter EXCEPT !.at = "entered",
                                  !.encrypting = (mode = "Encrypt"),
                                  !.quiet = quiet,
                                  !.input_size = input_size]
    /\ UNCHANGED << genVars, ttyVars, configVars, pipeVars, mainVars, pc,
                    exit_code, err, mem, verbosity >>

MeterNext ==
    \/ MeterEnter
    \/ MInterval
    \/ MEngineCall

MeterSpec == MeterInit /\ [][MeterNext]_vars

(* -------------------- main() from the command line ---------------------- *)

\* the file lists main() tells apart: how many names, which of them "-"
MainFileLists == UNION { [1..n -> {Stdio, NameX}] : n \in 0..MaxFiles }

\* the key file contents tried with the option checks
SampleKeyContents == { <<>>, << 65 >>, << 10 >>, << 255, 254, 65, 0 >> }

OptionSets ==
    [ decrypt : BOOLEAN, encrypt : BOOLEAN, generate : BOOLEAN,
      password : {"absent", "empty", "invalid", "valid"},
      keyfile : {"absent", "empty", "stdin", "name"},
      keysize : {"absent", "given"},
      iterations : {"absent", "given"} ]

\* main() entered with any command line
MainInit ==
    /\ options \in OptionSets
    /\ filenames \in MainFileLists
    /\ outfile_given \in BOOLEAN
    /\ output_file \in (IF outfile_given THEN OutputArgs ELSE {Empty})
    /\ win32 \in BOOLEAN
    /\ key_data \in (IF options.keyfile = "name" THEN SampleKeyContents
                     ELSE { <<>> })
    /\ mode = "Undefined"
    /\ password = <<>>
    /\ key_file = Empty
    /\ iterations = "default"
    /\ events = {}
    /\ fs = [p \in Paths |-> "none"]
    /\ pc = "o_parse"
    /\ PipelineInit
    /\ meter = NoMeter
    /\ verbosity = Verbosity(FALSE, FALSE, FALSE)
    /\ mem = {}
    /\ GenIdle
    /\ TtyIdle

MainNext ==
    \/ OParse
    \/ OFiles
    \/ OMode
    \/ OPassword
    \/ OKeyFile
    \/ OKeySize
    \/ OIterations
    \/ OOutfile
    \/ OGenerate
    \/ OReadKey
    \/ OPrompt
    \/ OBatch

MainSpec == MainInit /\ [][MainNext]_vars

(* ------------------- main() reading a key file -------------------------- *)

\* main() about to read the key file of a decrypt run, for every content of
\* the key file
KeyInit ==
    /\ key_data \in KeyFileContents
    /\ options = [decrypt |-> TRUE, encrypt |-> FALSE, generate |-> FALSE,
                  password |-> "absent", keyfile |-> "name",
                  keysize |-> "absent", iterations |-> "absent"]
    /\ filenames = << NameXaes >>
    /\ outfile_given = FALSE
    /\ output_file = Empty
    /\ win32 = FALSE
    /\ mode = "Decrypt"
    /\ password = <<>>
    /\ key_file = NameKey
    /\ iterations = "default"
    /\ events = {"parsed"}
    /\ fs = [p \in Paths |-> "none"]
    /\ pc = "o_readkey"
    /\ PipelineInit
    /\ meter = NoMeter
    /\ verbosity = Verbosity(FALSE, FALSE, FALSE)
    /\ mem = {}
    /\ GenIdle
    /\ TtyIdle

KeyNext ==
    \/ OReadKey
    \/ OPrompt
    \/ OBatch

KeySpec == KeyInit /\ [][KeyNext]_vars

(* ------------------- the batch over richer file names ------------------- *)

MaxNameLen == 2

NameChars == {"x", ".", "/"}

RECURSIVE NamesUpTo(_)
NamesUpTo(n) ==
    IF n = 0 THEN { Empty }
    ELSE LET shorter == NamesUpTo(n - 1)
         IN  shorter \cup { Append(s, c) : s \in shorter, c \in NameChars }

\* the input names tried: every short name, and it with .aes and .AES added
NameInputs ==
    NamesUpTo(MaxNameLen)
        \cup { s \o AesSuffix : s \in NamesUpTo(MaxNameLen) }
        \cup { s \o <<".", "A", "E", "S">> : s \in NamesUpTo(MaxNameLen) }

\* what a name can be on disk: nothing for the empty name, a directory for a
\* name that ends in a separator or in "." or "..", else a regular file
NameType(name) ==
    IF name = Empty THEN "none"
    ELSE IF PathFilename(name) \in {Empty, <<".">>, <<".", ".">>} THEN "dir"
    ELSE "file"

\* a run over one input of any name, with no output file given, whose default
\* output name does not exist yet
NameInit ==
    /\ mode \in {"Encrypt", "Decrypt"}
    /\ \E name \in NameInputs :
         /\ filenames = << name >>
         /\ fs = [p \in {name, EncryptOutName(name), DecryptOutName(name)} |->
                     IF p = name THEN NameType(name) ELSE "none"]
    /\ outfile_given = FALSE
    /\ output_file = Empty
    /\ pc = "m_args"
    /\ PipelineInit
    /\ meter = NoMeter
    /\ verbosity = Verbosity(FALSE, FALSE, FALSE)
    /\ GenIdle
    /\ TtyIdle
    /\ options = [decrypt |-> mode = "Decrypt", encrypt |-> mode = "Encrypt",
                  generate |-> FALSE, password |-> "valid",
                  keyfile |-> "absent", keysize |-> "absent",
                  iterations |-> "absent"]
    /\ password = PasswordArg
    /\ key_file = Empty
    /\ key_data = <<>>
    /\ iterations = "default"
    /\ win32 = FALSE
    /\ events = {"parsed", "password_arg"}
    /\ mem = {PasswordContainer}

NameSpec == NameInit /\ [][Next]_vars


TypeOK ==
    /\ mode \in {"Undefined", "Encrypt", "Decrypt", "KeyGenerate"}
    /\ pc \in {"o_parse", "o_files", "o_mode", "o_password", "o_keyfile",
               "o_keysize", "o_iterations", "o_outfile", "o_generate",
               "o_readkey", "o_prompt", "o_batch", "o_logging", "m_args", "d_precheck", "f_begin", "f_in_check", "f_in_open",
               "f_out_check", "f_out_open", "s_spawn", "s_lock", "s_wait",
               "s_sleep", "s_relock", "s_decide", "s_cancel", "s_join",
               "s_result", "f_close", "f_cleanup", "f_term", "done"}
    /\ wpc \in {"w_none", "w_start", "w_engine", "w_returned", "w_locked",
                "w_exit"}
    /\ hpc \in {"h_none", "h_lock", "h_set", "h_notify"}
    /\ mutex \in {"free", "ctl", "wrk", "sig"}
    /\ terminate \in BOOLEAN
    /\ exit_code \in {"none", "EXIT_SUCCESS", "EXIT_FAILURE"}
    /\ idx \in 1..(MaxFiles + 1)

(* ------------------------------ properties ------------------------------ *)

Files == 1..file_count

\* the controller is at or past the join of the current file's worker
JoinReached == pc \in {"s_join", "s_result"}

\* the stream function of file i has returned
StreamReturned(i) == log[i].sres # "none"

\* the input of file i was opened, its output opened, or its worker started
Touched(i) == log[i].in > 0 \/ log[i].out > 0 \/ log[i].thr > 0

\* C1 as stated: whenever the wait returned with terminate observed true,
\* the completion flag set or not, Cancel() has been called by the time the
\* controller joins the worker.
C1_CancelWheneverTerminateObserved ==
    (JoinReached /\ log[idx].obsSeen /\ log[idx].obsTerm)
        => log[idx].cancels >= 1

\* C1 amended: when the wait returned with terminate observed true and the
\* completion flag unset, Cancel() has been called once by the time the
\* controller joins; when the completion flag was set too, Cancel() is
\* skipped and the join follows directly.
C1_CancelBeforeJoinUnlessComplete ==
    (JoinReached /\ log[idx].obsSeen /\ log[idx].obsTerm)
        => log[idx].cancels = (IF log[idx].obsComp THEN 0 ELSE 1)

C1_Witness ==
    /\ pc = "s_result"
    /\ log[idx].obsTerm
    /\ ~log[idx].obsComp
    /\ log[idx].cancels = 1

\* C2 as stated: if the handler set terminate while the file's worker was
\* running (thread started, engine call not yet returned), Cancel() has been
\* invoked exactly once when the stream function has returned.
C2_CancelExactlyOnce ==
    \A i \in 1..MaxFiles :
        (StreamReturned(i) /\ log[i].termRun) => log[i].cancels = 1

\* C2 amended: if the handler set terminate while the file's worker was
\* running, then when the stream function has returned Cancel() has been
\* invoked exactly once if the completion flag was unset when the wait
\* returned, and not at all if the worker had set it by then.
C2_CancelOnceUnlessComplete ==
    \A i \in 1..MaxFiles :
        (StreamReturned(i) /\ log[i].termRun)
            => /\ log[i].obsTerm
               /\ log[i].cancels = (IF log[i].obsComp THEN 0 ELSE 1)

C2_Witness ==
    \E i \in 1..MaxFiles :
        /\ StreamReturned(i)
        /\ log[i].termRun
        /\ ~log[i].obsComp
        /\ log[i].cancels = 1

\* C3: the engine result is inspected, and the stream function returns, only
\* after the worker thread has been joined, on every path.
C3_JoinBeforeResult ==
    pc \in {"s_result", "f_close", "f_cleanup", "f_term"} => wpc = "w_none"

C3_Witness ==
    /\ pc = "f_close"
    /\ wpc = "w_none"
    /\ log[idx].cancels = 1
    /\ log[idx].eng = "Cancelled"

\* C4: every read and write of ProcessControl.terminate (signal handler, wait
\* predicate, cancel decision, batch loop check) is made with
\* ProcessControl.mutex held by the accessing context.
C4_TerminateAccessUnderMutex ==
    \A a \in termAccess : a.locked

\* C5: once ProcessControl.terminate is true it stays true, whatever the
\* signal handler, the controller, the worker or the batch loop do.
C5_TerminateNeverReset ==
    [][terminate => terminate']_vars

C5_Witness ==
    /\ terminate
    /\ sigCount >= 2
    /\ hpc = "h_notify"
    /\ idx >= 2

\* C6 as stated: when the batch has returned, the output of a file whose
\* output name did not exist at the check and whose stream call failed does
\* not exist; an output that existed as a non-regular entry is still there.
C6_FailedOutputGone ==
    pc = "done" =>
        \A i \in 1..MaxFiles :
            /\ (log[i].chk = "none" /\ log[i].sres = "false")
                   => Status(log[i].name) = "none"
            /\ log[i].chk = "dev" => Status(log[i].name) = "dev"

\* C6 amended: when the batch has returned, for a file whose output name did
\* not exist at the check and whose stream call failed, the removal of the
\* output was attempted and the output does not exist unless that removal
\* itself failed; an output that existed as a non-regular entry is never
\* removed.
C6_FailedOutputRemovalAttempted ==
    /\ pc = "done" =>
        \A i \in 1..MaxFiles :
            (log[i].chk = "none" /\ log[i].sres = "false")
                => /\ log[i].rmTried
                   /\ log[i].rmOk => Status(log[i].name) = "none"
    /\ \A i \in 1..MaxFiles :
           log[i].chk = "dev"
               => Status(log[i].name) = "dev" /\ ~log[i].rmTried

C6_Witness ==
    /\ pc = "done"
    /\ \E i \in 1..MaxFiles :
           /\ log[i].chk = "none"
           /\ log[i].created
           /\ log[i].sres = "false"
           /\ log[i].rmOk
           /\ Status(log[i].name) = "none"

\* C7 as stated: when a cancellation was carried out for a file (Cancel()
\* invoked), the batch returns failure and the file's output, if flagged
\* remove-on-failure, does not exist afterwards.
C7_CancelledOutputGone ==
    pc = "done" =>
        \A i \in 1..MaxFiles :
            log[i].cancels >= 1
                => /\ exit_code = "EXIT_FAILURE"
                   /\ log[i].flag => Status(log[i].name) = "none"

\* C7 amended: when a cancellation was carried out for a file, the batch
\* returns failure; if the file was flagged remove-on-failure and its engine
\* call did not report Success, the removal of its output was attempted and
\* the output does not exist unless that removal itself failed.
C7_CancelledBatchFails ==
    pc = "done" =>
        \A i \in 1..MaxFiles :
            log[i].cancels >= 1
                => /\ exit_code = "EXIT_FAILURE"
                   /\ (log[i].flag /\ log[i].eng # "Success")
                          => /\ log[i].rmTried
                             /\ log[i].rmOk => Status(log[i].name) = "none"

C7_Witness ==
    /\ pc = "done"
    /\ \E i \in 1..MaxFiles :
           /\ log[i].cancels = 1
           /\ log[i].flag
           /\ log[i].eng = "Cancelled"
           /\ log[i].rmOk
           /\ Status(log[i].name) = "none"

\* C8: files are processed in order and never retried; a file is touched
\* (input opened, output opened, worker started) only if the stream call of
\* every earlier file returned true, and no file after the one that was
\* current when terminate was set is touched.
C8_StopAtFirstFailure ==
    \A i \in 1..MaxFiles :
        /\ log[i].in <= 1 /\ log[i].out <= 1 /\ log[i].thr <= 1
        /\ Touched(i) => \A j \in 1..(i - 1) : log[j].sres = "true"
        /\ Touched(i) => i <= idx
        /\ (termIdx # 0 /\ i > termIdx) => ~Touched(i)

C8_Witness ==
    /\ pc = "done"
    /\ file_count >= 2
    /\ termIdx = 1
    /\ log[1].sres = "true"
    /\ ~Touched(2)

\* C9: main returns EXIT_SUCCESS only if the arguments were accepted and the
\* worker of every file of the list was started once and its engine call
\* reported Success.
C9_SuccessOnlyIfAllSucceed ==
    exit_code = "EXIT_SUCCESS" =>
        /\ ~ArgsRejected
        /\ \A i \in Files : log[i].thr = 1 /\ log[i].eng = "Success"

C9_Witness ==
    /\ exit_code = "EXIT_SUCCESS"
    /\ file_count >= 2
    /\ \A i \in Files : log[i].eng = "Success"

\* C10: within a loop iteration remove_on_fail is true only if the output is
\* not stdout and its name did not exist when it was checked in this
\* iteration; it is false for stdout and for an existing non-regular entry,
\* and is not inherited from the previous file.
C10_FlagOnlyForAbsentOutput ==
    /\ (pc \notin {"m_args", "d_precheck", "f_begin"} /\ idx <= file_count)
           => (remove_on_fail => (log[idx].chk = "none" /\ out_file # Stdio))
    /\ \A i \in 1..MaxFiles :
           log[i].flag => (log[i].chk = "none" /\ log[i].name # Stdio)

C10_Witness ==
    /\ idx = 2
    /\ pc = "s_spawn"
    /\ log[1].flag
    /\ log[2].chk = "dev"
    /\ ~remove_on_fail

\* the output check of file i failed with this error line, naming the output
\* path, and the file's processing created, truncated and removed nothing
OutputRefused(i, text) ==
    /\ pc = "done"
    /\ idx = i
    /\ exit_code = "EXIT_FAILURE"
    /\ err = Error(text, log[i].name)
    /\ log[i].out = 0
    /\ log[i].thr = 0
    /\ ~log[i].created
    /\ ~log[i].rmTried

\* C11 as stated: when the run has ended at a file whose output path is not
\* "-" and names an existing directory or an existing regular file, the exit
\* code is failure, the error line is 'Target output cannot be a directory'
\* or 'Target output file already exists' with that path, and the output was
\* neither opened nor removed.
C11_OutputConflictReported ==
    (/\ pc = "done"
     /\ idx \in Files
     /\ log[idx].chk # "unchecked"
     /\ log[idx].out = 0
     /\ log[idx].name # Stdio
     /\ Status(log[idx].name) \in {"dir", "file"})
        => OutputRefused(idx,
               IF Status(log[idx].name) = "dir"
               THEN "Target output cannot be a directory"
               ELSE "Target output file already exists")

\* C11 amended: in both modes, when the status query of an output path other
\* than "-" reports a directory the file fails with 'Target output cannot be
\* a directory' naming that path, and when it reports a regular file the file
\* fails with 'Target output file already exists' naming it; when the status
\* query itself fails the file fails with 'Unable to open output file' naming
\* the path. In all three cases the exit code is failure, the entry is left
\* as it was and nothing is created, truncated or removed.
C11_OutputConflictReportedWhenStatusKnown ==
    \A i \in 1..MaxFiles :
        /\ log[i].chk = "dir"
               => /\ OutputRefused(i, "Target output cannot be a directory")
                  /\ Status(log[i].name) = "dir"
        /\ log[i].chk = "file"
               => /\ OutputRefused(i, "Target output file already exists")
                  /\ Status(log[i].name) = "file"
        /\ log[i].chk = "threw"
               => OutputRefused(i, "Unable to open output file")
        /\ log[i].chk # "unchecked" => log[i].name # Stdio

C11_Witness ==
    /\ pc = "done"
    /\ mode = "Decrypt"
    /\ idx = 2
    /\ log[1].created
    /\ log[1].sres = "true"
    /\ log[2].chk = "file"
    /\ err = Error("Target output file already exists", out_file)

\* the input check of file i failed with this error line, naming the input
\* path, before the input was sized or opened and with nothing created
InputRefused(i, text) ==
    /\ pc = "done"
    /\ idx = i
    /\ exit_code = "EXIT_FAILURE"
    /\ err = Error(text, filenames[i])
    /\ ~Touched(i)
    /\ ~log[i].sized
    /\ log[i].chk = "unchecked"
    /\ ~log[i].rmTried

\* C12 as stated: when a run has ended at the input check of a file whose
\* input name is not "-" and does not exist, or exists and is not a regular
\* file, the exit code is failure and the error line is 'Input file
\* does not exist' or 'Input name is not a file' with that path, nothing
\* having been opened or created; stdin is never status-checked or sized.
C12_InputProblemReported ==
    /\ (/\ pc = "done"
        /\ ~ArgsRejected
        /\ idx \in Files
        /\ in_file # Stdio
        /\ log[idx].ichk # "unchecked"
        /\ Status(in_file) # "file")
           => InputRefused(idx,
                  IF Status(in_file) = "none"
                  THEN "Input file does not exist"
                  ELSE "Input name is not a file")
    /\ \A i \in Files :
           filenames[i] = Stdio
               => log[i].ichk = "unchecked" /\ ~log[i].sized

\* C12 amended: in both modes, when the input check of a name other than "-"
\* is reached and the status query reports that the name does not exist, the file fails with 'Input file does not
\* exist'; when it reports an entry that is not a regular file, with 'Input
\* name is not a file'; when the status query itself fails, with 'Error
\* checking input file'; each names the exact input path, the exit code is
\* failure and nothing is sized, opened, created or removed. The input "-" is
\* never status-checked or sized.
C12_InputProblemReportedWhenChecked ==
    /\ \A i \in 1..MaxFiles :
        /\ log[i].ichk = "none"
               => /\ InputRefused(i, "Input file does not exist")
                  /\ Status(filenames[i]) = "none"
        /\ log[i].ichk \in {"dir", "dev"}
               => /\ InputRefused(i, "Input name is not a file")
                  /\ Status(filenames[i]) = log[i].ichk
        /\ log[i].ichk = "threw"
               => InputRefused(i, "Error checking input file")
        /\ (log[i].in > 0 \/ log[i].sized) => log[i].ichk = "file"
    /\ \A i \in Files :
           filenames[i] = Stdio
               => log[i].ichk = "unchecked" /\ ~log[i].sized

C12_Witness ==
    /\ pc = "done"
    /\ mode = "Decrypt"
    /\ idx = 2
    /\ log[1].sres = "true"
    /\ log[2].ichk = "dir"
    /\ err = Error("Input name is not a file", filenames[2])

\* C13: with no output file given, the output path chosen for encrypting
\* input X is X followed by ".aes", and the output path chosen for decrypting
\* an input that is X followed by ".aes" (in any letter case) is X; the
\* default encrypt target of X passes the extension check of decryption and
\* its default decrypt target is X again.
C13_DefaultOutputNames ==
    \A i \in Files :
        (output_file = Empty /\ log[i].name # Empty)
            => LET X == filenames[i]
                   Y == log[i].name
               IN  /\ mode = "Encrypt"
                          => /\ Len(Y) = Len(X) + 4
                             /\ SubSeq(Y, 1, Len(X)) = X
                             /\ SubSeq(Y, Len(X) + 1, Len(Y))
                                    = <<".", "a", "e", "s">>
                             /\ HasAESExtension(Y)
                             /\ DecryptOutName(Y) = X
                   /\ mode = "Decrypt"
                          => /\ Len(X) = Len(Y) + 4
                             /\ SubSeq(X, 1, Len(Y)) = Y
                             /\ HasAESExtension(X)

C13_Witness ==
    /\ mode = "Decrypt"
    /\ filenames = << <<".", "x", ".", "a", "e", "s">> >>
    /\ log[1].name = <<".", "x">>
    /\ exit_code = "EXIT_SUCCESS"

\* C14: when more than one input file is given together with an output file,
\* in every run whose options the parser hands to main()'s checks, the run
\* ends with an error line and EXIT_FAILURE, and no key file is read or
\* generated and the batch (which opens inputs and creates outputs) is never
\* called.
C14_MultiInputWithOutputRejected ==
    (outfile_given /\ file_count > 1 /\ "parsed" \in events)
        => /\ events \cap {"keyfile_read", "keyfile_generated", "batch"} = {}
           /\ pc \notin {"o_generate", "o_readkey", "o_prompt", "o_batch"}
           /\ pc = "done" => (exit_code = "EXIT_FAILURE" /\ err # NoError)

C14_Witness ==
    /\ pc = "done"
    /\ outfile_given
    /\ file_count = 2
    /\ options.keyfile = "name"
    /\ key_file = NameKey
    /\ exit_code = "EXIT_FAILURE"
    /\ err = Error("Output file cannot be specified when providing multiple input files",
                   Empty)

\* the secret sources main() has used so far
SecretSources == events \cap {"password_arg", "keyfile_read", "prompted"}

\* C15: at most one secret source is ever used, and exactly one when the
\* batch is called; a run given both a password and a key file is rejected
\* before any key file is read, any prompt shown or the batch called; the
\* prompt is shown only when neither option was given; a key file that gives
\* no key ends the run with failure, without prompt and without batch.
C15_ExactlyOneSecretSource ==
    /\ Cardinality(SecretSources) <= 1
    /\ "batch" \in events
           => /\ Cardinality(SecretSources) = 1
              /\ mode \in {"Encrypt", "Decrypt"}
              /\ password # <<>>
              /\ "password_arg" \in events => password = PasswordArg
              /\ "keyfile_read" \in events => password = ReadKeyFile(key_data)
              /\ "prompted" \in events => password = PromptText
    /\ (/\ "parsed" \in events
        /\ options.password # "absent"
        /\ options.keyfile # "absent")
           => /\ events \cap {"keyfile_read", "keyfile_generated",
                              "prompted", "batch"} = {}
              /\ pc = "done" => exit_code = "EXIT_FAILURE"
    /\ "prompted" \in events
           => options.password = "absent" /\ options.keyfile = "absent"
    /\ ("keyfile_read" \in events /\ password = <<>>)
           => /\ pc = "done"
              /\ exit_code = "EXIT_FAILURE"
              /\ events \cap {"prompted", "batch"} = {}

C15_Witness ==
    /\ "batch" \in events
    /\ "keyfile_read" \in events
    /\ mode = "Encrypt"
    /\ password = << 65 >>
    /\ SecretSources = {"keyfile_read"}

\* C16: when the iterations option is given in decrypt or generate mode the
\* run ends with a non-success exit code, and neither is a key file generated
\* nor the batch called.
C16_IterationsOnlyWhenEncrypting ==
    (options.iterations = "given" /\ mode \in {"Decrypt", "KeyGenerate"})
        => /\ events \cap {"keyfile_generated", "batch"} = {}
           /\ pc = "done" => exit_code = "EXIT_FAILURE"

\* the key file was opened and read to its end
KeyFileRead ==
    "keyfile_read" \in events /\ "keyfile_unreadable" \notin events

\* C17: when the key file holds a text as BOM-tagged UTF-16 (either octet
\* order, well formed), the key read from it is the key that ReadKeyFile
\* gives for the BOM-less UTF-8 file of the same text, line endings included.
C17_SameKeyForEveryEncoding ==
    (/\ KeyFileRead
     /\ Len(key_data) >= 2
     /\ Len(key_data) % 2 = 0
     /\ << key_data[1], key_data[2] >> \in { << 255, 254 >>, << 254, 255 >> })
        => LET text == ConvertUTF16ToUTF8(SubSeq(key_data, 3, Len(key_data)),
                                          key_data[1] = 255)
           IN  text.result => password = ReadKeyFile(text.out)

\* the encoding the first two octets stand for
EncodingOfFirstTwo(key) ==
    IF Len(key) >= 2 /\ key[1] = 255 /\ key[2] = 254 THEN "UTF-16LE"
    ELSE IF Len(key) >= 2 /\ key[1] = 254 /\ key[2] = 255 THEN "UTF-16BE"
    ELSE "UTF-8"

\* C18: the key read from a key file is the key of the UTF-16LE branch only
\* when the file starts with FF FE, of the UTF-16BE branch only when it
\* starts with FE FF, and of the UTF-8 branch in every other case.
C18_EncodingFromFirstTwoOctets ==
    (KeyFileRead /\ key_data # <<>>)
        => password =
             (IF EncodingOfFirstTwo(key_data) = "UTF-8"
              THEN KeyFromUTF8(key_data)
              ELSE KeyFromUTF16(key_data,
                                EncodingOfFirstTwo(key_data) = "UTF-16LE"))

\* the UTF-16 code units of an octet string of even length
CodeUnits(s, little_endian) ==
    [k \in 1..(Len(s) \div 2) |-> CodeUnit(s, k, little_endian)]

\* every surrogate of the code units has its partner next to it
WellFormedUTF16(u) ==
    \A k \in DOMAIN u :
        /\ HighSurrogate(u[k]) => (k < Len(u) /\ LowSurrogate(u[k + 1]))
        /\ LowSurrogate(u[k]) => (k > 1 /\ HighSurrogate(u[k - 1]))

\* the code points of well-formed code units, from unit k on
RECURSIVE ScalarsOf(_, _)
ScalarsOf(u, k) ==
    IF k > Len(u) THEN <<>>
    ELSE IF HighSurrogate(u[k])
    THEN << 65536 + (u[k] - 55296) * 1024 + (u[k + 1] - 56320) >>
             \o ScalarsOf(u, k + 2)
    ELSE << u[k] >> \o ScalarsOf(u, k + 1)

\* the code points of valid UTF-8 octets, from octet i on
RECURSIVE UTF8Decode(_, _)
UTF8Decode(s, i) ==
    IF i > Len(s) THEN <<>>
    ELSE LET b == s[i]
         IN  IF b < 128 THEN << b >> \o UTF8Decode(s, i + 1)
             ELSE IF b < 224
             THEN << (b - 192) * 64 + (s[i + 1] - 128) >>
                      \o UTF8Decode(s, i + 2)
             ELSE IF b < 240
             THEN << (b - 224) * 4096 + (s[i + 1] - 128) * 64
                        + (s[i + 2] - 128) >> \o UTF8Decode(s, i + 3)
             ELSE << (b - 240) * 262144 + (s[i + 1] - 128) * 4096
                        + (s[i + 2] - 128) * 64 + (s[i + 3] - 128) >>
                      \o UTF8Decode(s, i + 4)

\* C18 as amended: the first octet alone decides the encoding. Content of
\* even length of at least 4 octets that starts with FF gives the key of its
\* code units from the third octet on read little endian, and content that
\* starts with FE the key of these units read big endian, whatever the second
\* octet is; a key from content with any other first octet is a prefix of
\* the content, octet for octet.
C18_EncodingFromFirstOctet ==
    (KeyFileRead /\ key_data # <<>>)
        => IF key_data[1] \in {254, 255}
           THEN LET units == CodeUnits(SubSeq(key_data, 3, Len(key_data)),
                                       key_data[1] = 255)
                IN  (/\ Len(key_data) % 2 = 0
                     /\ Len(key_data) >= 4
                     /\ WellFormedUTF16(units))
                        => /\ password # <<>>
                           /\ UTF8Decode(password, 1) = ScalarsOf(units, 1)
           ELSE password = SubSeq(key_data, 1, Len(password))

C18_Witness ==
    /\ KeyFileRead
    /\ key_data = << 255, 65, 0, 10 >>
    /\ password = << 224, 168, 128 >>
    /\ "batch" \in events

\* C19: for a key file taken as UTF-16 (first octet FE or FF), the key is
\* non-empty only if the length is even and at least 4 and every code unit
\* after the BOM is well formed, and then it is valid UTF-8 that decodes to
\* the code points of the whole text; in every other case the key is empty
\* and the run ends with failure.
C19_UTF16KeyWholeOrEmpty ==
    (KeyFileRead /\ key_data # <<>> /\ key_data[1] \in {254, 255})
        => LET units == CodeUnits(SubSeq(key_data, 3, Len(key_data)),
                                  key_data[1] = 255)
           IN  IF /\ Len(key_data) % 2 = 0
                  /\ Len(key_data) >= 4
                  /\ WellFormedUTF16(units)
               THEN /\ password # <<>>
                    /\ IsUTF8Valid(password)
                    /\ UTF8Decode(password, 1) = ScalarsOf(units, 1)
               ELSE /\ password = <<>>
                    /\ pc = "done"
                    /\ exit_code = "EXIT_FAILURE"

C19_Witness ==
    /\ KeyFileRead
    /\ key_data = << 255, 254, 65, 0, 0, 216 >>
    /\ password = <<>>
    /\ pc = "done"
    /\ exit_code = "EXIT_FAILURE"

\* C20: for a key file taken as UTF-8 (first octet neither FE nor FF), with n
\* the number of octets before the first NUL, carriage return or line feed
\* (all octets when there is none): when n > 0 and these octets are valid
\* UTF-8 the key is exactly these octets and main() goes on with it;
\* otherwise there is no key and the run ends with failure on 'Unable to get
\* a key from the key file', without prompt and without batch.
C20_UTF8KeyCutAtTerminator ==
    (KeyFileRead /\ key_data # <<>> /\ key_data[1] \notin {254, 255})
        => \E n \in 0..Len(key_data) :
              /\ \A j \in 1..n : key_data[j] \notin {0, 10, 13}
              /\ n = Len(key_data) \/ key_data[n + 1] \in {0, 10, 13}
              /\ IF n > 0 /\ IsUTF8Valid(SubSeq(key_data, 1, n))
                 THEN /\ password = SubSeq(key_data, 1, n)
                      /\ err = NoError
                      /\ pc \in {"o_prompt", "o_batch", "done"}
                      /\ pc = "done" => "batch" \in events
                 ELSE /\ password = <<>>
                      /\ pc = "done"
                      /\ exit_code = "EXIT_FAILURE"
                      /\ err = Error("Unable to get a key from the key file",
                                     Empty)
                      /\ events \cap {"prompted", "batch"} = {}

C20_Witness ==
    /\ KeyFileRead
    /\ key_data = << 195, 169, 13, 65 >>
    /\ password = << 195, 169 >>
    /\ "batch" \in events

\* the 64 symbols of a generated key: A-Z, a-z, 0-9, '_' and '+'
KeyAlphabet == (65..90) \cup (97..122) \cup (48..57) \cup {95, 43}

\* C21: when GenerateKeyFile(path, n) creates the file and returns true and
\* ReadKeyFile(path) then reads it, no file operation failing, the key read
\* has exactly n characters, each of the 64-symbol alphabet, character i the
\* alphabet entry indexed by the low 6 bits of random octet i, and is what
\* the file holds.
C21_GeneratedKeyRoundTrip ==
    (gpc = "g_read" /\ gen.ret = TRUE /\ gen.created /\ ~gen.fault)
        => /\ Len(gen.read) = gen.size
           /\ \A i \in 1..gen.size :
                /\ gen.read[i] \in KeyAlphabet
                /\ gen.read[i] = Key_Characters[(gen.random[i] % 64) + 1]
           /\ gen.read = kf.data

C21_Witness ==
    /\ gpc = "g_read"
    /\ gen.ret = TRUE
    /\ gen.created
    /\ ~gen.fault
    /\ gen.random = << 255, 64, 138 >>
    /\ gen.read = << 43, 65, 75 >>

\* C22: when the target path of GenerateKeyFile is an existing regular file
\* the call returns false, and the file exists with the content it had, at
\* every point of the call and after it.
C22_ExistingKeyFileKept ==
    (gpc # "idle" /\ ~gen.stdout /\ gen.before.type = "file")
        => /\ kf = gen.before
           /\ gpc \in {"g_check", "g_returned", "g_read"}
           /\ gpc # "g_check" => gen.ret = FALSE

C22_Witness ==
    /\ gpc = "g_returned"
    /\ ~gen.stdout
    /\ ~gen.fault
    /\ gen.size = 3
    /\ gen.ret = FALSE
    /\ kf = [type |-> "file", data |-> << 65, 66, 10 >>]

\* C23: when GenerateKeyFile has newly created the target file and returns
\* false, the target file does not exist (unless its removal itself failed);
\* when it returns true for a target file, the file holds the complete key.
C23_FailedWriteLeavesNoFile ==
    gpc = "g_returned"
        => /\ (gen.created /\ gen.ret = FALSE /\ ~gen.rm_threw)
                  => kf.type = "none"
           /\ (gen.ret = TRUE /\ ~gen.stdout /\ kf.type = "file")
                  => kf.data = gen.key

\* C24: whenever ReadTerminalText has returned after it turned echo off, the
\* terminal's echo flag is what it was before the call.
C24_EchoRestoredOnEveryExit ==
    (tpc = "t_returned" /\ tty.echo_disabled) => echo = tty.prior

\* the output path of file i is chosen and passed its check
OutputResolved(i) ==
    /\ log[i].name # Empty
    /\ log[i].name = Stdio
          \/ log[i].chk \notin {"unchecked", "threw", "dir", "file"}

\* the input of file i passed its check, or is stdin
InputResolved(i) == filenames[i] = Stdio \/ log[i].ichk = "file"

\* a check of file i's input or output ended the batch
ResolutionFailed(i) ==
    \/ log[i].ichk \notin {"unchecked", "file"}
    \/ log[i].chk \in {"threw", "dir", "file"}

\* C25 as stated: a stream of a file is open only when its output path is
\* chosen and all its input and output checks have passed, and a file whose
\* resolution failed has had no stream opened.
C25_ResolvedBeforeAnyStream ==
    \A i \in Files :
        /\ (log[i].in > 0 \/ log[i].out > 0)
               => (InputResolved(i) /\ OutputResolved(i))
        /\ ResolutionFailed(i)
               => (log[i].in = 0 /\ log[i].out = 0 /\ log[i].thr = 0)

\* C25 as amended: the input stream of a file is opened once its input
\* checks have passed, before the output path is chosen; the output stream
\* is opened and the worker started only when the output path is chosen and
\* every check has passed; a file whose resolution failed has had no output
\* stream opened, no file created, no worker started and nothing removed.
C25_ResolvedBeforeOutputStream ==
    \A i \in Files :
        /\ log[i].in > 0 => InputResolved(i)
        /\ (log[i].out > 0 \/ log[i].thr > 0)
               => (InputResolved(i) /\ OutputResolved(i))
        /\ ResolutionFailed(i)
               => /\ log[i].out = 0
                  /\ log[i].thr = 0
                  /\ ~log[i].created
                  /\ ~log[i].rmTried

C25_Witness ==
    /\ pc = "done"
    /\ exit_code = "EXIT_FAILURE"
    /\ log[1].chk = "file"
    /\ log[1].in = 1
    /\ log[1].out = 0
    /\ log[1].thr = 0

\* C26: when the stream function of a file has returned, exactly one outcome
\* holds, fixed by the engine result: it returned true if and only if the
\* engine reported Success, and then nothing was written to the error
\* stream; it returned false with no error line only if the engine reported
\* its cancellation code, terminate having been observed before completion
\* and Cancel() called; it returned false with the engine's error line if
\* and only if the engine reported any other code.
C26_OneOutcomePerEngineResult ==
    pc = "f_close"
        => LET run == log[idx]
               completed == run.sres = "true"
               cancelled == run.sres = "false" /\ err = NoError
               failed ==
                   /\ run.sres = "false"
                   /\ err.text \in {"Error encrypting file",
                                    "Error decrypting file"}
           IN  /\ Cardinality({o \in {"completed", "cancelled", "failed"} :
                      \/ o = "completed" /\ completed
                      \/ o = "cancelled" /\ cancelled
                      \/ o = "failed" /\ failed}) = 1
               /\ completed <=> run.eng = "Success"
               /\ cancelled => /\ run.eng = "Cancelled"
                               /\ run.obsTerm
                               /\ ~run.obsComp
                               /\ run.cancels = 1
               /\ failed <=> run.eng \notin {"Success", "Cancelled"}

C26_Witness ==
    /\ pc = "f_close"
    /\ log[idx].eng = "Cancelled"
    /\ log[idx].sres = "false"
    /\ log[idx].obsTerm
    /\ err = NoError

\* C27: every container that holds or has held the secret is of a type that
\* erases its memory, and none has been destroyed with its octets left.
C27_SecretOnlyInErasingContainers ==
    \A c \in mem : c.kind = "secure" /\ c.state # "residue"

C29_HandlerNeverBlockedByItsHost ==
    ~(hpc = "h_lock" /\ hhost \in {"ctl", "wrk"} /\ mutex = hhost)

\* C30: once the stream function has started its worker thread, the
\* controller's wait returns and the stream function returns.
C30_StreamCallReturns ==
    (pc = "s_spawn") ~> (pc = "f_close")

\* C31: whenever Cancel() is called on the engine object, the worker thread
\* has already entered the engine's Encrypt/Decrypt call.
C31_CancelAfterEngineEntered ==
    [][(log'[idx].cancels > log[idx].cancels) => wpc # "w_start"]_vars

\* C32: when the batch has returned, every output file that the batch
\* created and that still exists belongs to a file whose engine call reported
\* Success, unless the removal of that output was attempted and failed.
C32_OnlySuccessfulOutputsRemain ==
    pc = "done" =>
        \A i \in 1..MaxFiles :
            (/\ log[i].created
             /\ Status(log[i].name) # "none"
             /\ ~(log[i].rmTried /\ ~log[i].rmOk))
                => log[i].eng = "Success"

C32_Witness ==
    /\ pc = "done"
    /\ exit_code = "EXIT_FAILURE"
    /\ log[1].created
    /\ log[1].eng = "Success"
    /\ Status(log[1].name) = "file"
    /\ log[2].created
    /\ log[2].eng \in {"Failure", "Cancelled"}
    /\ log[2].rmOk
    /\ Status(log[2].name) = "none"

\* C33: in a decrypt batch with no output file, when any name of the list
\* lacks the .aes extension no input is opened, no output is opened or
\* created and no worker is started for any file, and the batch fails.
C33_AllNamesCheckedBeforeAnyFile ==
    (/\ mode = "Decrypt"
     /\ output_file = Empty
     /\ \E i \in DOMAIN filenames : ~HasAESExtension(filenames[i]))
        => /\ \A i \in 1..MaxFiles :
                /\ log[i].in = 0
                /\ log[i].out = 0
                /\ log[i].thr = 0
                /\ ~log[i].created
           /\ pc = "done" => exit_code = "EXIT_FAILURE"

C33_Witness ==
    /\ pc = "done"
    /\ mode = "Decrypt"
    /\ output_file = Empty
    /\ file_count = 2
    /\ HasAESExtension(filenames[1])
    /\ Status(filenames[1]) = "file"
    /\ ~HasAESExtension(filenames[2])
    /\ err = Error("Input file does not end with .aes and no output file was specified",
                   filenames[2])
    /\ exit_code = "EXIT_FAILURE"

\* C34: in both stream functions the stride handed to the engine equals the
\* computed update_interval, which is 0 exactly when the meter was not
\* started, which is exactly when input_size divided by the meter width is
\* below 16 times the meter width.
C34_StrideIsUpdateInterval ==
    meter.at = "called" =>
        /\ meter.stride = meter.update_interval
        /\ meter.update_interval = 0 <=> ~meter.started
        /\ ~meter.started <=>
              meter.input_size \div MeterWidth < MeterSteps * MeterWidth

\* C35: when GenerateKeyFile has returned, an entry that existed at the
\* target path before the call is still there with its type.
C35_ExistingEntryNeverRemoved ==
    (gpc = "g_returned" /\ gen.before.type # "none")
        => kf.type = gen.before.type

\* C36: the read loop of ReadTerminalText ends and the function returns a
\* result, whatever the terminal delivers.
C36_ReadLoopTerminates ==
    (tpc = "t_read") ~> (tpc = "t_returned")

====
